---- MODULE Spec2Model ----
(***************************************************************************)
(* A model of claude-orchestra: the activity classifier (patterns.py), the *)
(* status writer and the supervisor (wrapper.py) and the status reader of  *)
(* the session registry (session/manager.py) over the terminal host        *)
(* (tmux/controller.py).                                                   *)
(*                                                                         *)
(* Text is modelled as a sequence of one-character strings, so stripping,  *)
(* slicing and pattern matching are computed character by character.       *)
(***************************************************************************)
EXTENDS Integers, Sequences, FiniteSets, TLC

VARIABLES
    \* ---- classifier harness (patterns.detect_state as a pure function)
    cl_line,        \* the line handed to detect_state
    cl_current,     \* the current_state argument
    cl_result,      \* "none" before the call, the returned state after it
    rx,             \* the child's output as a byte stream: how much of it the
                    \* reads of the master have taken, and the states published
    \* ---- the status directory and the processes using it
    fs,             \* ~/.claude-orchestra/status: names, inodes and their text
    clock,          \* what datetime.now() last returned
    sw,             \* the StatusWriter object of each writer
    wl,             \* each writer's position inside update() and its locals
    issued,         \* the status dicts update() calls have built, as long as
                    \* a writer, a file or the reader still holds their text
    rd,             \* the reader: its position inside get_session_status
    registry,       \* SessionManager._sessions: the ids known in memory
    \* ---- the supervisor (run_wrapper), its child and its terminal
    wp,             \* the supervisor process: where it is in run_wrapper
    child,          \* the forked child: running, exited, reaped
    tty,            \* the pty (output waiting on the master) and the real stdio
    sig,            \* the signals the supervisor received and those it sent on
    \* ---- the session registry (SessionManager) and the terminal host
    sessions,       \* SessionManager._sessions: the Session of each known id
    meta,           \* ~/.claude-orchestra/sessions: the metadata file of each id
    tmux,           \* the tmux server: reachable or not, its live sessions
    call,           \* the last call made on the SessionManager and its outcome
    deleted,        \* per id: "no", or how delete_session that returned True left the metadata file
    order,          \* SessionManager._sessions: its keys in the order the dict keeps them
    ctl,            \* the TmuxController object: its cached server connection
    mgrs            \* two SessionManager objects over one sessions directory:
                    \* the _sessions of each and where it is in reconnect

clVars == <<cl_line, cl_current, cl_result, rx>>
stVars == <<fs, clock, sw, wl, issued, rd, registry>>
wrVars == <<wp, child, tty, sig>>
rgVars == <<sessions, meta, tmux, call, deleted, order, ctl, mgrs>>

vars == <<cl_line, cl_current, cl_result, rx,
          fs, clock, sw, wl, issued, rd, registry,
          wp, child, tty, sig,
          sessions, meta, tmux, call, deleted, order, ctl, mgrs>>

----------------------------------------------------------------------------
(* Bounds *)

\* lines of the classifier harness are concatenations of at most this many fragments
MaxFrags == 3
\* update() calls made in a run of the status specifications, beyond the first
MaxCalls == 1

\* events from outside in one run of the supervisor: chunks the child writes,
\* chunks typed on the real stdin, signals received, status writes that fail
MaxEvents == 3

\* wrapper.py line 48: the stored last_output is cut to this many characters
MaxLastOutput == 200

SessionIds == {"s1", "s2"}
Writers == {"w1", "w2"}

\* temporary names and inodes: one per update() call, and the status file
\* and the file the reader holds open
\* the most bytes one read of the master returns here (1024 in wrapper.py
\* line 147): as long as the longest output, so that one read can take it all
MaxRead == 10
MaxTmp == MaxCalls + 1
MaxInodes == MaxTmp + 2

----------------------------------------------------------------------------
(* session/models.py *)

SessionState == {"working", "waiting", "idle", "error", "unknown"}

----------------------------------------------------------------------------
(* Text helpers: the Python str operations the code uses *)

\* str.isspace() / regex \s, restricted to the characters of the model
IsSpace(c) == c \in {" ", "\t", "\n", "\r"}

UpperLetters == <<"A","B","C","D","E","F","G","H","I","J","K","L","M",
                  "N","O","P","Q","R","S","T","U","V","W","X","Y","Z">>
LowerLetters == <<"a","b","c","d","e","f","g","h","i","j","k","l","m",
                  "n","o","p","q","r","s","t","u","v","w","x","y","z">>

\* case folding of one character, as re.IGNORECASE compares
LowerChar(c) ==
    IF \E i \in 1..26 : UpperLetters[i] = c
    THEN LowerLetters[CHOOSE i \in 1..26 : UpperLetters[i] = c]
    ELSE c

Lower(s) == [i \in 1..Len(s) |-> LowerChar(s[i])]

\* str.strip(): drop leading and trailing whitespace
strip(s) ==
    IF \A i \in 1..Len(s) : IsSpace(s[i])
    THEN <<>>
    ELSE LET first == CHOOSE i \in 1..Len(s) :
                          ~IsSpace(s[i]) /\ \A j \in 1..(i-1) : IsSpace(s[j])
             last  == CHOOSE i \in 1..Len(s) :
                          ~IsSpace(s[i]) /\ \A j \in (i+1)..Len(s) : IsSpace(s[j])
         IN  SubSeq(s, first, last)

\* s[:n]
Prefix(s, n) == IF Len(s) <= n THEN s ELSE SubSeq(s, 1, n)

\* regex ^p (literal p)
StartsWith(s, p) == Len(s) >= Len(p) /\ SubSeq(s, 1, Len(p)) = p

\* regex p anywhere (literal p)
Contains(s, p) ==
    \E i \in 1..(Len(s) - Len(p) + 1) : SubSeq(s, i, i + Len(p) - 1) = p

\* regex ^p\s (literal p followed by one whitespace character)
StartsWithThenSpace(s, p) ==
    /\ StartsWith(s, p)
    /\ Len(s) > Len(p)
    /\ IsSpace(s[Len(p) + 1])

----------------------------------------------------------------------------
(* patterns.py: the literals of the pattern lists *)

DoYouWantTo  == <<"D","o"," ","y","o","u"," ","w","a","n","t"," ","t","o">>
WouldYouLike == <<"W","o","u","l","d"," ","y","o","u"," ","l","i","k","e">>
PressEnter   == <<"P","r","e","s","s"," ","E","n","t","e","r">>
YesNoUpper   == <<"[","Y","/","n","]">>
YesNoLower   == <<"[","y","/","N","]">>
Reading      == <<"R","e","a","d","i","n","g">>
Writing      == <<"W","r","i","t","i","n","g">>
Editing      == <<"E","d","i","t","i","n","g">>
Running      == <<"R","u","n","n","i","n","g">>
Searching    == <<"S","e","a","r","c","h","i","n","g">>
ErrorColon     == <<"e","r","r","o","r",":">>
FailedColon    == <<"f","a","i","l","e","d",":">>
ExceptionColon == <<"e","x","c","e","p","t","i","o","n",":">>

\* WAITING_PATTERNS[i].search(s)
WAITING_PATTERNS(i, s) ==
    CASE i = 1 -> Len(s) >= 1 /\ s[1] = ">" /\ \A k \in 2..Len(s) : IsSpace(s[k])
      [] i = 2 -> Len(s) >= 2 /\ s[1] = "?" /\ IsSpace(s[2])
      [] i = 3 -> StartsWith(s, DoYouWantTo)
      [] i = 4 -> StartsWith(s, WouldYouLike)
      [] i = 5 -> StartsWith(s, PressEnter)
      [] i = 6 -> Contains(s, YesNoUpper)
      [] i = 7 -> Contains(s, YesNoLower)

\* WORKING_PATTERNS[i].search(s); pattern 6 is ^\[.*\] where . is not a newline
WORKING_PATTERNS(i, s) ==
    CASE i = 1 -> StartsWithThenSpace(s, Reading)
      [] i = 2 -> StartsWithThenSpace(s, Writing)
      [] i = 3 -> StartsWithThenSpace(s, Editing)
      [] i = 4 -> StartsWithThenSpace(s, Running)
      [] i = 5 -> StartsWithThenSpace(s, Searching)
      [] i = 6 -> /\ Len(s) >= 2
                  /\ s[1] = "["
                  /\ \E j \in 2..Len(s) :
                        s[j] = "]" /\ \A k \in 2..(j-1) : s[k] # "\n"

\* ERROR_PATTERNS[i].search(s), compiled with re.IGNORECASE
ERROR_PATTERNS(i, s) ==
    CASE i = 1 -> StartsWith(Lower(s), ErrorColon)
      [] i = 2 -> StartsWith(Lower(s), FailedColon)
      [] i = 3 -> StartsWith(Lower(s), ExceptionColon)

MatchesWaiting(s) == \E i \in 1..7 : WAITING_PATTERNS(i, s)
MatchesError(s)   == \E i \in 1..3 : ERROR_PATTERNS(i, s)
MatchesWorking(s) == \E i \in 1..6 : WORKING_PATTERNS(i, s)

\* mutants of detect_state (plausible slips in the order of the three loops,
\* in the blank-line return and in the default)
detect_state_error_first(line, current_state) ==
    LET l == strip(line) IN
    IF l = <<>> THEN current_state
    ELSE IF MatchesError(l) THEN "error"
    ELSE IF MatchesWaiting(l) THEN "waiting"
    ELSE "working"

detect_state_blank_unknown(line, current_state) ==
    LET l == strip(line) IN
    IF l = <<>> THEN "unknown"
    ELSE IF MatchesWaiting(l) THEN "waiting"
    ELSE IF MatchesError(l) THEN "error"
    ELSE "working"

detect_state_default_current(line, current_state) ==
    LET l == strip(line) IN
    IF l = <<>> THEN current_state
    ELSE IF MatchesWaiting(l) THEN "waiting"
    ELSE IF MatchesError(l) THEN "error"
    ELSE IF MatchesWorking(l) THEN "working"
    ELSE current_state

\* patterns.detect_state
detect_state(line, current_state) ==
    LET l == strip(line) IN
    IF l = <<>> THEN current_state
    ELSE IF MatchesWaiting(l) THEN "waiting"
    ELSE IF MatchesError(l) THEN "error"
    ELSE IF MatchesWorking(l) THEN "working"
    ELSE "working"

----------------------------------------------------------------------------
(* JSON text and records.  A file's text is a sequence of tokens; a write   *)
(* that is cut short leaves a prefix of the token sequence.                *)

TokOpen  == [tok |-> "{"]
TokClose == [tok |-> "}"]
TokNull  == [tok |-> "null"]
TokJunk  == [tok |-> "junk"]
Member(key, val) == [tok |-> "member", key |-> key, val |-> val]

\* JSON values: a string holding text, a string holding a word (a state
\* name), a string holding an ISO timestamp, a number, null
JText(cs) == [t |-> "text", v |-> cs]
JWord(w)  == [t |-> "word", v |-> w]
JIso(n)   == [t |-> "iso", v |-> n]
JNum(n)   == [t |-> "num", v |-> n]
JNull     == [t |-> "null", v |-> 0]
JMissing  == [t |-> "missing", v |-> 0]

\* json.dump(status, f, indent=2) of the dict built in StatusWriter.update
json_dump(status) ==
    << TokOpen,
       Member("state", JWord(status.state)),
       Member("last_output", JText(status.last_output)),
       Member("updated_at", JIso(status.updated_at)),
       TokClose >>

\* json.loads(text): a dict, the scalar null, or JSONDecodeError
json_loads(text) ==
    IF /\ Len(text) >= 2
       /\ text[1] = TokOpen
       /\ text[Len(text)] = TokClose
       /\ \A i \in 2..(Len(text) - 1) : text[i].tok = "member"
    THEN [ok |-> TRUE, kind |-> "dict", members |-> SubSeq(text, 2, Len(text) - 1)]
    ELSE IF text = <<TokNull>>
    THEN [ok |-> TRUE, kind |-> "null", members |-> <<>>]
    ELSE [ok |-> FALSE, kind |-> "error", members |-> <<>>]

\* data.get(key): the last member with that key, as json.loads keeps it
DictGet(members, key) ==
    IF \E i \in 1..Len(members) : members[i].key = key
    THEN LET last == CHOOSE i \in 1..Len(members) :
                        /\ members[i].key = key
                        /\ \A j \in (i+1)..Len(members) : members[j].key # key
         IN  members[last].val
    ELSE JMissing

\* SessionStatus(state=SessionState.UNKNOWN): the other fields take their defaults
DefaultStatus(now) == [state |-> "unknown", last_output |-> <<>>, updated_at |-> now]

\* SessionStatus.model_validate(data): the validated record, or ValidationError
model_validate_any_state(data, now) ==
    LET st == DictGet(data.members, "state")
        lo == DictGet(data.members, "last_output")
        up == DictGet(data.members, "updated_at")
    IN  IF \/ data.kind # "dict"
           \/ lo.t \notin {"missing", "text"}
           \/ up.t \notin {"missing", "iso", "num"}
        THEN [ok |-> FALSE, value |-> DefaultStatus(now)]
        ELSE [ok |-> TRUE,
              value |-> [state |-> IF st.t = "word" THEN st.v ELSE "unknown",
                         last_output |-> IF lo.t = "missing" THEN <<>> ELSE lo.v,
                         updated_at |-> IF up.t = "missing" THEN now ELSE up.v]]

model_validate(data, now) ==
    LET st == DictGet(data.members, "state")
        lo == DictGet(data.members, "last_output")
        up == DictGet(data.members, "updated_at")
    IN  IF \/ data.kind # "dict"
           \/ ~(st.t = "missing" \/ (st.t = "word" /\ st.v \in SessionState))
           \/ lo.t \notin {"missing", "text"}
           \/ up.t \notin {"missing", "iso", "num"}
        THEN [ok |-> FALSE, value |-> DefaultStatus(now)]
        ELSE [ok |-> TRUE,
              value |-> [state |-> IF st.t = "missing" THEN "unknown" ELSE st.v,
                         last_output |-> IF lo.t = "missing" THEN <<>> ELSE lo.v,
                         updated_at |-> IF up.t = "missing" THEN now ELSE up.v]]

\* the value a call that raised leaves to its caller
Raised == [state |-> "RAISED", last_output |-> <<>>, updated_at |-> 0]

\* mutant: JSONDecodeError is not caught
read_status_json_uncaught(ok, text, now) ==
    IF ~ok THEN DefaultStatus(now)
    ELSE LET data == json_loads(text) IN
         IF ~data.ok THEN Raised
         ELSE LET v == model_validate(data, now) IN
              IF ~v.ok THEN DefaultStatus(now) ELSE v.value

\* get_session_status, lines 128-136: read_text() gave `text` (ok) or raised
read_status(ok, text, now) ==
    IF ~ok THEN DefaultStatus(now)
    ELSE LET data == json_loads(text) IN
         IF ~data.ok THEN DefaultStatus(now)
         ELSE LET v == model_validate(data, now) IN
              IF ~v.ok THEN DefaultStatus(now) ELSE v.value

----------------------------------------------------------------------------
(* The status directory: names bound to inodes, inodes holding text.  An   *)
(* open file keeps its inode when its name is renamed over or unlinked.    *)

StatusName(sid) == <<"status", sid, 0>>
TmpName(sid, k) == <<"tmp", sid, k>>
NoName == <<"none", "", 0>>

FsNames == { StatusName(sid) : sid \in SessionIds }
               \cup { TmpName(sid, k) : sid \in SessionIds, k \in 1..MaxTmp }

EmptyFs == [dir |-> [n \in FsNames |-> 0], inodes |-> [i \in 1..MaxInodes |-> <<>>]]

\* a status directory holding one status file with the given text
FsWith(sid, text) ==
    [dir |-> [n \in FsNames |-> IF n = StatusName(sid) THEN 1 ELSE 0],
     inodes |-> [i \in 1..MaxInodes |-> IF i = 1 THEN text ELSE <<>>]]

\* the inodes some name is bound to
Named(f) == { f.dir[n] : n \in FsNames } \ {0}

\* the temporary files of a session that are in the directory
TempFiles(f, sid) == { k \in 1..MaxTmp : f.dir[TmpName(sid, k)] # 0 }

\* an inode that no name and no open file refers to is freed
Collect(f, open) ==
    [f EXCEPT !.inodes = [i \in 1..MaxInodes |->
                            IF i \in Named(f) \cup open THEN f.inodes[i] ELSE <<>>]]

\* mutant: the record is written straight into the status file (open(path, "w"))
mkstemp_in_place(f, sid, open) ==
    IF f.dir[StatusName(sid)] # 0
    THEN [name |-> StatusName(sid), ino |-> f.dir[StatusName(sid)],
          fs |-> [f EXCEPT !.inodes[f.dir[StatusName(sid)]] = <<>>]]
    ELSE LET ino == CHOOSE i \in 1..MaxInodes :
                        /\ i \notin Named(f) \cup open
                        /\ \A j \in 1..(i-1) : j \in Named(f) \cup open
         IN  [name |-> StatusName(sid), ino |-> ino,
              fs |-> [f EXCEPT !.dir[StatusName(sid)] = ino, !.inodes[ino] = <<>>]]

\* tempfile.mkstemp(dir=status_dir, prefix=".<id>.", suffix=".tmp"): a new empty
\* file under a name no file has (the lowest free one stands for the random name)
mkstemp(f, sid, open) ==
    LET k    == CHOOSE i \in 1..MaxTmp :
                    /\ f.dir[TmpName(sid, i)] = 0
                    /\ \A j \in 1..(i-1) : f.dir[TmpName(sid, j)] # 0
        ino  == CHOOSE i \in 1..MaxInodes :
                    /\ i \notin Named(f) \cup open
                    /\ \A j \in 1..(i-1) : j \in Named(f) \cup open
    IN  [name |-> TmpName(sid, k), ino |-> ino,
         fs |-> [f EXCEPT !.dir[TmpName(sid, k)] = ino, !.inodes[ino] = <<>>]]

\* f.write(...) on the open descriptor
fs_write(f, ino, toks) == [f EXCEPT !.inodes[ino] = @ \o toks]

\* os.rename(src, dst): dst now names src's inode, in one step
fs_rename(f, src, dst) ==
    IF src = dst THEN f
    ELSE [f EXCEPT !.dir[dst] = f.dir[src], !.dir[src] = 0]

\* os.unlink(name)
fs_unlink(f, name) == [f EXCEPT !.dir[name] = 0]

----------------------------------------------------------------------------
(* wrapper.py: StatusWriter *)

\* mutant of lines 32-35: the status file is that of a fixed session
NewStatusWriter_fixed(sid, now) ==
    [session_id |-> "s2", state |-> "unknown", last_output |-> <<>>, last_update |-> now]

\* StatusWriter.__init__
NewStatusWriter(sid, now) ==
    [session_id |-> sid, state |-> "unknown", last_output |-> <<>>, last_update |-> now]

\* mutants of line 48: the cut to 200 characters is missing; the strip is missing
stored_last_output_uncut(last_output) == strip(last_output)
stored_last_output_unstripped(last_output) == Prefix(last_output, MaxLastOutput)

\* line 48: last_output.strip()[:200]
stored_last_output(last_output) == Prefix(strip(last_output), MaxLastOutput)

\* StatusWriter.update, lines 45-49: the fields after the call
update_fields(self, state, last_output, now) ==
    [self EXCEPT !.state = state,
               !.last_output = IF last_output # <<>>
                               THEN stored_last_output(last_output) ELSE @,
               !.last_update = now]

\* StatusWriter.update, lines 51-55: the dict that is dumped
status_dict(self) ==
    [state |-> self.state, last_output |-> self.last_output,
     updated_at |-> self.last_update]

\* what can go wrong in one update(): nothing, mkstemp, the write, the rename,
\* and the write or the rename together with the unlink of the handler
UpdateFaults == {"none", "mkstemp", "write", "rename", "write+unlink", "rename+unlink"}

\* lines 57-73 as one step: the status directory after the try block
write_status(self, f, fault) ==
    LET m    == mkstemp(f, self.session_id, {})
        text == json_dump(status_dict(self))
    IN  CASE fault = "none" ->
               Collect(fs_rename(fs_write(m.fs, m.ino, text), m.name,
                                 StatusName(self.session_id)), {})
          [] fault = "mkstemp" -> f
          [] fault \in {"write", "rename"} -> Collect(fs_unlink(m.fs, m.name), {})
          [] fault \in {"write+unlink", "rename+unlink"} -> m.fs

\* mutant: the outer handler (lines 74-76) is missing, a failed write raises
update_uncaught(self, f, state, last_output, now, fault) ==
    [self |-> update_fields(self, state, last_output, now),
     fs |-> write_status(update_fields(self, state, last_output, now), f, fault),
     raised |-> fault # "none"]

\* StatusWriter.update as one step: the object and the status directory after
\* the call, and whether the call raised
update(self, f, state, last_output, now, fault) ==
    [self |-> update_fields(self, state, last_output, now),
     fs |-> write_status(update_fields(self, state, last_output, now), f, fault),
     raised |-> FALSE]

----------------------------------------------------------------------------
(* The parts of the state a specification does not use stay as they start *)

IdleWriter == [pc |-> "idle", status |-> status_dict(NewStatusWriter("s1", 0)),
               temp |-> NoName, fd |-> 0, result |-> "none",
               state |-> "unknown", line |-> <<>>, calls |-> 0]

IdleReader == [pc |-> "idle", ino |-> 0, saw |-> "nothing", text |-> <<>>,
               result |-> DefaultStatus(0)]

NoProcess == [pc |-> "start", handlers |-> {}, exit_code |-> -1, exc |-> "none",
              left |-> "none", wrote |-> "none", faults |-> 0,
              fwd_in |-> 0, fwd_out |-> 0, pub |-> <<>>, spins |-> 0,
              last_ok |-> -1]
NoChild == [st |-> "none", status |-> [kind |-> "none", code |-> 0],
            held |-> FALSE, pending |-> {}]
NoTty == [out |-> <<>>, stdin |-> "idle", emitted |-> 0, typed |-> 0]
NoSignals == [n |-> 0, last |-> "none", sent |-> <<>>]

WrapperQuiet ==
    /\ wp = NoProcess
    /\ child = NoChild
    /\ tty = NoTty
    /\ sig = NoSignals

NoSession == [id |-> "", project_path |-> "", project_name |-> "",
              task_description |-> "", tmux_session |-> <<>>]
NoFile == [kind |-> "none", session |-> NoSession]
\* op: the method; ret, exc: what it returned or raised; calls: its calls to
\* the terminal host, in order; count: the count reconnect returned; killed:
\* what kill_session returned to delete_session; still: the terminal host
\* is as it was when reconnect returned; again: this reconnect came
\* straight after one that returned, with the terminal host as it was
NoCall == [op |-> "none", id |-> "", ret |-> "none", exc |-> "none", calls |-> <<>>,
           count |-> 0, killed |-> FALSE, still |-> TRUE, again |-> FALSE]

\* TmuxController.__init__: no connection yet
NewTmuxController == [server |-> "None"]

\* the SessionManager objects of the two-instance runs; before: the ids an
\* object held when it was constructed
Managers == {"m1", "m2"}
NoManager == [registry |-> {}, sessions |-> [id \in SessionIds |-> NoSession],
              order |-> <<>>, pc |-> "idle", names |-> <<>>,
              session |-> NoSession, count |-> 0, before |-> {}]
NoManagers == [m \in Managers |-> NoManager]

RegistryQuiet ==
    /\ sessions = [id \in SessionIds |-> NoSession]
    /\ meta = [id \in SessionIds |-> NoFile]
    /\ tmux = [up |-> TRUE, live |-> {}]
    /\ call = NoCall
    /\ deleted = [id \in SessionIds |-> "no"]
    /\ order = <<>>
    /\ ctl = NewTmuxController
    /\ mgrs = NoManagers

\* no output stream
NoStream == [text |-> <<>>, at |-> 0, pub |-> <<>>]

ClassifierQuiet ==
    /\ cl_line = <<>>
    /\ cl_current = "unknown"
    /\ cl_result = "none"
    /\ rx = NoStream

StatusQuiet ==
    /\ fs = EmptyFs
    /\ clock = 0
    /\ sw = [w \in Writers |-> NewStatusWriter("s1", 0)]
    /\ wl = [w \in Writers |-> IdleWriter]
    /\ issued = {}
    /\ rd = IdleReader
    /\ registry = {}

----------------------------------------------------------------------------
(* The classifier harness: inputs of detect_state drawn from bounded sets *)

Fragments ==
    { <<" ">>, <<"\n">>, <<">">>, <<"[">>, <<"]">>, <<"x">>,
      DoYouWantTo, YesNoUpper, <<"E","r","r","o","r",":">> }

RECURSIVE Concats(_)
Concats(n) ==
    IF n = 0 THEN { <<>> }
    ELSE LET shorter == Concats(n - 1)
         IN  shorter \cup { s \o f : s \in shorter, f \in Fragments }

\* one line per pattern of the three lists, as in tests/test_patterns.py
ExampleLines ==
    { WouldYouLike \o <<" ","x","?">>,
      PressEnter \o <<" ","x">>,
      Writing \o <<" ","x">>,
      Editing \o <<" ","x">>,
      Running \o <<" ","x">>,
      Searching \o <<" ","x">>,
      <<"E","x","c","e","p","t","i","o","n",":"," ","x">>,
      <<"e","r","r","o","r",":"," ">> \o YesNoLower,
      <<"F","A","I","L","E","D",":","\t","x">>,
      <<"\t",">","\t","\r">>,
      <<"\t","\r">>,
      <<"?">>, <<"?"," ","x">>, <<"?","x">>, <<"x","?"," ">>,
      Reading, Reading \o <<"x">>, Reading \o <<" ", "x">>,
      <<"x"," ">> \o Reading \o <<" ", "x">>,
      <<" "," ">> \o Reading \o <<" ","x"," "," ">>,
      <<"[","R","e","a","d","]"," ","x">> }

ClassifierLines == Concats(MaxFrags) \cup ExampleLines

InitClassify ==
    /\ cl_line \in ClassifierLines
    /\ cl_current \in SessionState
    /\ cl_result = "none"
    /\ rx = NoStream
    /\ StatusQuiet
    /\ WrapperQuiet
    /\ RegistryQuiet

\* one call detect_state(cl_line, cl_current)
DetectState ==
    /\ cl_result = "none"
    /\ cl_result' = detect_state(cl_line, cl_current)
    /\ UNCHANGED <<cl_line, cl_current, rx>>
    /\ UNCHANGED <<stVars, wrVars, rgVars>>

NextClassify == DetectState

SpecClassify == InitClassify /\ [][NextClassify]_vars

----------------------------------------------------------------------------
(* StatusWriter.update step by step, for writers that run concurrently on  *)
(* the status file of session s1, and get_session_status step by step.     *)

Sid == "s1"

Rep(c, n) == [i \in 1..n |-> c]

\* arguments of update(): lines around the 200 character cut
UpdateLines ==
    { <<>>,
      <<" ", " ">>,
      <<" ", "a", " ", "b", "\r">>,
      Rep("x", MaxLastOutput),
      <<"\t">> \o Rep("x", MaxLastOutput - 1) \o <<" ", "y", "z", " ">> }

\* the inodes held open: by a writer between mkstemp and the end of the with
\* block, by the reader inside read_text()
OpenInodes(l, r) ==
    { l[w].fd : w \in { x \in Writers : l[x].pc = "write" } }
        \cup (IF r.pc = "read" THEN {r.ino} ELSE {})

\* the dicts whose text a writer, a file or the reader holds
Held(S, f, l, r) ==
    { st \in S :
        \/ \E w \in Writers : l[w].pc # "idle" /\ l[w].status = st
        \/ \E i \in 1..MaxInodes : f.inodes[i] = json_dump(st)
        \/ r.saw = "text" /\ r.text = json_dump(st) }

\* update() has returned: its locals are gone; the arguments and the outcome
\* of the call are kept for the properties
Returned(l, outcome) ==
    [IdleWriter EXCEPT !.result = outcome, !.state = l.state, !.line = l.line,
                       !.calls = l.calls]

\* update(state, line) is entered: lines 45-55
UpdateBegin(w, state, line) ==
    /\ wl[w].pc = "idle"
    /\ clock <= MaxCalls
    /\ clock' = clock + 1
    /\ sw' = [sw EXCEPT ![w] = update_fields(sw[w], state, line, clock)]
    /\ wl' = [wl EXCEPT ![w] = [IdleWriter EXCEPT !.pc = "mkstemp",
                                  !.status = status_dict(sw'[w]),
                                  !.state = state, !.line = line,
                                  !.calls = wl[w].calls + 1]]
    /\ rd' = IF rd.pc = "returned" THEN IdleReader ELSE rd
    /\ issued' = Held(issued \cup {status_dict(sw'[w])}, fs, wl', rd')
    /\ UNCHANGED <<fs, registry>>

\* lines 59-63: the temporary file is made
UpdateMkstemp(w) ==
    /\ wl[w].pc = "mkstemp"
    /\ LET r == mkstemp(fs, Sid, OpenInodes(wl, rd))
       IN  /\ fs' = r.fs
           /\ wl' = [wl EXCEPT ![w].pc = "write", ![w].temp = r.name, ![w].fd = r.ino]
    /\ issued' = Held(issued, fs', wl', rd)
    /\ UNCHANGED <<clock, sw, rd, registry>>

\* lines 59-63 raise: the outer handler logs (lines 74-76) and update returns
UpdateMkstempFail(w) ==
    /\ wl[w].pc = "mkstemp"
    /\ wl' = [wl EXCEPT ![w] = Returned(wl[w], "failed")]
    /\ issued' = Held(issued, fs, wl', rd)
    /\ UNCHANGED <<fs, clock, sw, rd, registry>>

\* lines 65-66: json.dump fills the file object's buffer and leaving the with
\* block flushes it and closes the file: the whole text reaches the file
UpdateWrite(w) ==
    /\ wl[w].pc = "write"
    /\ fs' = fs_write(fs, wl[w].fd, json_dump(wl[w].status))
    /\ wl' = [wl EXCEPT ![w].pc = "rename"]
    /\ issued' = Held(issued, fs', wl', rd)
    /\ UNCHANGED <<clock, sw, rd, registry>>

\* lines 65-66 raise (disk full, I/O error): only a part of the text, possibly
\* none of it, has reached the file; on to the inner handler
UpdateWriteFail(w) ==
    /\ wl[w].pc = "write"
    /\ \E k \in 0..(Len(json_dump(wl[w].status)) - 1) :
         fs' = fs_write(fs, wl[w].fd, SubSeq(json_dump(wl[w].status), 1, k))
    /\ wl' = [wl EXCEPT ![w].pc = "cleanup"]
    /\ issued' = Held(issued, fs', wl', rd)
    /\ UNCHANGED <<clock, sw, rd, registry>>

\* line 68: os.rename(temp_path, self.status_file), then update returns
UpdateRename(w) ==
    /\ wl[w].pc = "rename"
    /\ wl' = [wl EXCEPT ![w] = Returned(wl[w], "ok")]
    /\ fs' = Collect(fs_rename(fs, wl[w].temp, StatusName(Sid)), OpenInodes(wl', rd))
    /\ issued' = Held(issued, fs', wl', rd)
    /\ UNCHANGED <<clock, sw, rd, registry>>

\* line 68 raises: on to the inner handler
UpdateRenameFail(w) ==
    /\ wl[w].pc = "rename"
    /\ wl' = [wl EXCEPT ![w].pc = "cleanup"]
    /\ UNCHANGED <<fs, clock, sw, issued, rd, registry>>

\* lines 69-76: unlink the temporary file if it is there, re-raise, and the
\* outer handler logs; update returns
UpdateCleanup(w) ==
    /\ wl[w].pc = "cleanup"
    /\ wl' = [wl EXCEPT ![w] = Returned(wl[w], "failed")]
    /\ fs' = Collect(IF fs.dir[wl[w].temp] # 0 THEN fs_unlink(fs, wl[w].temp) ELSE fs,
                     OpenInodes(wl', rd))
    /\ issued' = Held(issued, fs', wl', rd)
    /\ UNCHANGED <<clock, sw, rd, registry>>

\* lines 71-76 when os.unlink raises too: the temporary file stays behind; the
\* outer handler logs that exception instead and update returns.  Nothing opens
\* a left-behind file again, so its text is no longer kept.
UpdateCleanupFail(w) ==
    /\ wl[w].pc = "cleanup"
    /\ wl' = [wl EXCEPT ![w] = Returned(wl[w], "failed")]
    /\ fs' = [fs EXCEPT !.inodes[fs.dir[wl[w].temp]] = <<>>]
    /\ issued' = Held(issued, fs', wl', rd)
    /\ UNCHANGED <<clock, sw, rd, registry>>

\* get_session_status, lines 124-126: status_path.exists()
GssExists ==
    /\ rd.pc \in {"idle", "returned"}
    /\ rd' = IF fs.dir[StatusName(Sid)] = 0
             THEN [IdleReader EXCEPT !.pc = "returned", !.saw = "absent",
                      !.result = DefaultStatus(clock)]
             ELSE [IdleReader EXCEPT !.pc = "open"]
    /\ fs' = Collect(fs, OpenInodes(wl, rd'))
    /\ issued' = Held(issued, fs', wl, rd')
    /\ UNCHANGED <<clock, sw, wl, registry>>

\* line 129, read_text() opens the file: it may be gone by now, or unreadable
GssOpen ==
    /\ rd.pc = "open"
    /\ \E fault \in BOOLEAN :
         rd' = IF fault \/ fs.dir[StatusName(Sid)] = 0
               THEN [rd EXCEPT !.pc = "returned", !.saw = "unreadable",
                        !.result = read_status(FALSE, <<>>, clock)]
               ELSE [rd EXCEPT !.pc = "read", !.ino = fs.dir[StatusName(Sid)]]
    /\ fs' = Collect(fs, OpenInodes(wl, rd'))
    /\ issued' = Held(issued, fs', wl, rd')
    /\ UNCHANGED <<clock, sw, wl, registry>>

\* lines 129-136: read_text() reads the open file, then json.loads and
\* model_validate; every exception gives the default record
GssRead ==
    /\ rd.pc = "read"
    /\ \E fault \in BOOLEAN :
         rd' = IF fault
               THEN [rd EXCEPT !.pc = "returned", !.saw = "unreadable",
                        !.result = read_status(FALSE, <<>>, clock)]
               ELSE [rd EXCEPT !.pc = "returned", !.saw = "text",
                        !.text = fs.inodes[rd.ino],
                        !.result = read_status(TRUE, fs.inodes[rd.ino], clock)]
    /\ fs' = Collect(fs, OpenInodes(wl, rd'))
    /\ issued' = Held(issued, fs', wl, rd')
    /\ UNCHANGED <<clock, sw, wl, registry>>

\* arguments of the concurrent writers: the records of the two differ
ConcStates(w) == IF w = "w1" THEN {"working", "error"} ELSE {"waiting"}
ConcLines == { <<" ", "b", "\r">> }

\* before the run: nothing published yet, or writer w1 has published a record
PriorUpdates(lines) ==
    { update(NewStatusWriter(Sid, 0), EmptyFs, "working", line, -1, "none") :
         line \in lines }

InitWith(lines) ==
    /\ ClassifierQuiet
    /\ WrapperQuiet
    /\ RegistryQuiet
    /\ \/ StatusQuiet
       \/ \E u \in PriorUpdates(lines) :
             /\ fs = u.fs
             /\ clock = 0
             /\ sw = [w \in Writers |->
                        IF w = "w1" THEN u.self ELSE NewStatusWriter(Sid, 0)]
             /\ wl = [w \in Writers |-> IdleWriter]
             /\ issued = {status_dict(u.self)}
             /\ rd = IdleReader
             /\ registry = {}

InitStatus == InitWith(ConcLines)
InitRoundTrip == InitWith({ <<>>, <<"p">> })

\* the steps of update() after its entry, and the steps of get_session_status
UpdateStep(w) ==
    \/ UpdateMkstemp(w)
    \/ UpdateMkstempFail(w)
    \/ UpdateWrite(w)
    \/ UpdateWriteFail(w)
    \/ UpdateRename(w)
    \/ UpdateRenameFail(w)
    \/ UpdateCleanup(w)
    \/ UpdateCleanupFail(w)

GssStep ==
    \/ GssExists
    \/ GssOpen
    \/ GssRead

\* two StatusWriter objects update the status file of one session while a
\* reader polls it
NextStatus ==
    \/ \E w \in Writers, line \in ConcLines : \E state \in ConcStates(w) :
          UpdateBegin(w, state, line) /\ UNCHANGED <<clVars, wrVars, rgVars>>
    \/ \E w \in Writers : UpdateStep(w) /\ UNCHANGED <<clVars, wrVars, rgVars>>
    \/ GssStep /\ UNCHANGED <<clVars, wrVars, rgVars>>

SpecStatus == InitStatus /\ [][NextStatus]_vars

\* one StatusWriter publishes records of every state and of lines around the
\* 200 character cut, and the registry reads them back
NextRoundTrip ==
    \/ \E state \in SessionState, line \in UpdateLines :
          /\ rd.pc \in {"idle", "returned"}
          /\ UpdateBegin("w1", state, line)
          /\ UNCHANGED <<clVars, wrVars, rgVars>>
    \/ UpdateStep("w1") /\ UNCHANGED <<clVars, wrVars, rgVars>>
    \/ wl["w1"].pc = "idle" /\ GssStep /\ UNCHANGED <<clVars, wrVars, rgVars>>

SpecRoundTrip == InitRoundTrip /\ [][NextRoundTrip]_vars

----------------------------------------------------------------------------
(* get_session_status over status files of any content: whatever a process *)
(* other than the supervisor may have left under the name.                 *)

GoodRecord(state) ==
    json_dump([state |-> state, last_output |-> <<"a", "b">>, updated_at |-> 0])

StatusTexts ==
    { GoodRecord(st) : st \in SessionState }
    \cup { SubSeq(GoodRecord("working"), 1, k) : k \in 0..4 }
    \cup { <<TokJunk>>, <<TokNull>>, <<TokOpen, TokClose>>,
           GoodRecord("waiting") \o <<TokJunk>>,
           GoodRecord("waiting") \o GoodRecord("error"),
           <<TokOpen, Member("state", JWord("bogus")), TokClose>>,
           <<TokOpen, Member("state", JWord("WORKING")), TokClose>>,
           <<TokOpen, Member("state", JNum(3)), TokClose>>,
           <<TokOpen, Member("state", JNull), TokClose>>,
           <<TokOpen, Member("state", JWord("error")), TokClose>>,
           <<TokOpen, Member("state", JWord("idle")),
                      Member("last_output", JNum(7)), TokClose>>,
           <<TokOpen, Member("state", JWord("idle")),
                      Member("updated_at", JText(<<"x">>)), TokClose>>,
           <<TokOpen, Member("state", JWord("idle")),
                      Member("updated_at", JNum(7)), TokClose>>,
           <<TokOpen, Member("pid", JNum(7)),
                      Member("state", JWord("waiting")), TokClose>> }

InitRead ==
    /\ ClassifierQuiet
    /\ WrapperQuiet
    /\ RegistryQuiet
    /\ fs \in {EmptyFs} \cup { FsWith(Sid, text) : text \in StatusTexts }
    /\ clock = 0
    /\ sw = [w \in Writers |-> NewStatusWriter(Sid, 0)]
    /\ wl = [w \in Writers |-> IdleWriter]
    /\ issued = {}
    /\ rd = IdleReader
    /\ registry \in SUBSET SessionIds

\* another process removes the status file (manager.py lines 57-63,
\* _delete_session_file of another registry instance)
ExternalUnlink ==
    /\ fs.dir[StatusName(Sid)] # 0
    /\ fs' = Collect(fs_unlink(fs, StatusName(Sid)), OpenInodes(wl, rd))
    /\ UNCHANGED <<clock, sw, wl, issued, rd, registry>>

NextRead ==
    \/ GssStep /\ UNCHANGED <<clVars, wrVars, rgVars>>
    \/ ExternalUnlink /\ UNCHANGED <<clVars, wrVars, rgVars>>

SpecRead == InitRead /\ [][NextRead]_vars

----------------------------------------------------------------------------
(* wrapper.py: run_wrapper, the supervisor of one child on a pty *)

StartingClaude == <<"S","t","a","r","t","i","n","g"," ","C","l","a","u","d","e",
                    " ","C","o","d","e",".",".",".">>
SessionEnded == <<"S","e","s","s","i","o","n"," ","e","n","d","e","d">>

Signals == {"SIGINT", "SIGTERM"}

\* the exit codes the child is let to choose from
ExitCodes == {0, 2}

\* the chunks the child writes: a plain line, and an error line followed by
\* a blank line and a question
OutChunks ==
    { <<"o","k","\n">>,
      <<"E","r","r","o","r",":"," ","x","\n","\n">> \o YesNoUpper }

\* str.split("\n")
RECURSIVE split(_)
split(text) ==
    IF \A i \in 1..Len(text) : text[i] # "\n" THEN <<text>>
    ELSE LET i == CHOOSE j \in 1..Len(text) :
                      /\ text[j] = "\n"
                      /\ \A h \in 1..(j-1) : text[h] # "\n"
         IN  <<SubSeq(text, 1, i-1)>> \o split(SubSeq(text, i+1, Len(text)))

\* the lines of a chunk that line 156 lets through
NonBlank(lines) == SelectSeq(lines, LAMBDA l : strip(l) # <<>>)

\* lines 155-158: every line that is not blank is classified against the
\* writer's state and published; the k-th of these writes meets the fault.
\* pub: the states published; last_ok: the time of the last update whose
\* write succeeded, -1 when none did
RECURSIVE process_lines(_, _, _, _, _, _)
process_lines(self, f, lines, now, k, fault) ==
    IF lines = <<>>
    THEN [self |-> self, fs |-> f, raised |-> FALSE, now |-> now, pub |-> <<>>,
          last_ok |-> -1]
    ELSE LET line == Head(lines)
             u    == update(self, f, detect_state(line, self.state), line, now,
                            IF k = 1 THEN fault ELSE "none")
         IN  IF u.raised
             THEN [self |-> u.self, fs |-> u.fs, raised |-> TRUE, now |-> now + 1,
                   pub |-> <<u.self.state>>, last_ok |-> -1]
             ELSE LET r == process_lines(u.self, u.fs, Tail(lines), now + 1, k - 1,
                                         fault)
                  IN  [r EXCEPT !.pub = <<u.self.state>> \o @,
                                !.last_ok = IF @ # -1 THEN @
                                            ELSE IF k = 1 /\ fault # "none" THEN -1
                                            ELSE now]

\* the events from outside so far
Events == tty.emitted + tty.typed + sig.n + wp.faults

\* the faults a write of the supervisor can meet; a temporary file is left
\* behind at most once in a run
WriteFaults ==
    IF Events >= MaxEvents THEN {"none"}
    ELSE IF TempFiles(fs, "s1") = {} THEN UpdateFaults
    ELSE UpdateFaults \ {"write+unlink", "rename+unlink"}

Outcome(fault) == IF fault = "none" THEN "ok" ELSE "failed"
Counted(p, fault) == [p EXCEPT !.wrote = Outcome(fault),
                               !.faults = IF fault = "none" THEN @ ELSE @ + 1]

\* an exception leaves run_wrapper
Raise(p, exc) == [p EXCEPT !.pc = "raised", !.exc = exc, !.wrote = "none"]

\* mutant of line 87: the first record is published with the state of line 38
StartState_unknown == "unknown"

\* line 87: the state of the first record; line 176: that of the last
StartState == "working"
EndState == "idle"

\* lines 86-87: the StatusWriter is made and the first record is published
Start ==
    /\ wp.pc = "start"
    /\ \E fault \in WriteFaults :
          LET u == update(NewStatusWriter("s1", clock), fs, StartState,
                          StartingClaude, clock, fault)
              p == [wp EXCEPT !.pub = <<u.self.state>>,
                              !.last_ok = IF fault = "none" THEN clock ELSE @]
          IN  /\ sw' = [sw EXCEPT !["w1"] = u.self]
              /\ fs' = u.fs
              /\ clock' = clock + 1
              /\ wp' = IF u.raised
                       THEN Counted(Raise(p, "StatusError"), fault)
                       ELSE Counted([p EXCEPT !.pc = "opened"], fault)
    /\ UNCHANGED <<child, tty, sig, wl, issued, rd, registry>>

\* lines 90-108: the pty is opened and the child forked onto its slave side
Fork ==
    /\ wp.pc = "opened"
    /\ wp' = [wp EXCEPT !.pc = "forked", !.wrote = "none", !.pub = <<>>]
    /\ child' = [NoChild EXCEPT !.st = "running"]
    /\ UNCHANGED <<tty, sig, stVars>>

\* line 115: signal.signal(SIGINT, handle_signal)
InstallSigint ==
    /\ wp.pc = "forked"
    /\ wp' = [wp EXCEPT !.pc = "sigint", !.handlers = @ \cup {"SIGINT"},
                        !.wrote = "none", !.pub = <<>>]
    /\ UNCHANGED <<child, tty, sig, stVars>>

\* lines 116-119: signal.signal(SIGTERM, handle_signal); the loop is entered
InstallSigterm ==
    /\ wp.pc = "sigint"
    /\ wp' = [wp EXCEPT !.pc = "loop", !.handlers = @ \cup {"SIGTERM"},
                        !.wrote = "none", !.pub = <<>>]
    /\ UNCHANGED <<child, tty, sig, stVars>>

\* what select (line 124) finds readable: the real stdin when something is
\* typed, when it is at end of file or broken; the master when output waits
\* or when no process holds the slave side any more
StdinReady == tty.stdin # "idle"
SlaveClosed == child.st \in {"zombie", "reaped"} /\ ~child.held
MasterReady == tty.out # <<>> \/ SlaveClosed

\* a break of the loop, and the finally clause (line 169) closing the master
Break(p, how) == [p EXCEPT !.pc = "reap", !.left = how, !.spins = 0]

\* lines 124-126: select returns empty after a second in which nothing was ready
SelectTimeout ==
    /\ wp.pc = "loop"
    /\ ~StdinReady /\ ~MasterReady
    /\ wp' = [wp EXCEPT !.pc = "liveness", !.wrote = "none", !.pub = <<>>]
    /\ UNCHANGED <<child, tty, sig, stVars>>

\* lines 128-132: waitpid(pid, WNOHANG); a child that has exited is reaped
\* here and the loop is left, a running one lets the loop go on
LivenessCheck ==
    /\ wp.pc = "liveness"
    /\ IF child.st = "zombie"
       THEN /\ child' = [child EXCEPT !.st = "reaped"]
            /\ wp' = [Break(wp, "liveness") EXCEPT !.wrote = "none", !.pub = <<>>]
       ELSE /\ child' = child
            /\ wp' = [wp EXCEPT !.pc = "loop", !.wrote = "none", !.pub = <<>>]
    /\ UNCHANGED <<tty, sig, stVars>>

\* mutant of lines 140-142: an error on stdin is logged and the loop goes on
stdin_branch_retry(p, t, in_ok) ==
    CASE t.stdin = "data" /\ in_ok ->
            [wp |-> [p EXCEPT !.fwd_in = @ + 1],
             tty |-> [t EXCEPT !.stdin = "idle"], broke |-> FALSE]
      [] t.stdin = "data" /\ ~in_ok ->
            [wp |-> p, tty |-> [t EXCEPT !.stdin = "idle"], broke |-> FALSE]
      [] OTHER -> [wp |-> p, tty |-> t, broke |-> FALSE]

\* lines 134-142: the stdin branch of one turn.  in_ok: the write to the
\* master succeeds
stdin_branch(p, t, in_ok) ==
    CASE t.stdin = "idle"  -> [wp |-> p, tty |-> t, broke |-> FALSE]
      [] t.stdin = "eof"   -> [wp |-> p, tty |-> t, broke |-> FALSE]
      [] t.stdin = "error" -> [wp |-> Break(p, "ioerror"), tty |-> t,
                               broke |-> TRUE]
      [] t.stdin = "data"  ->
            IF in_ok
            THEN [wp |-> [p EXCEPT !.fwd_in = @ + 1],
                  tty |-> [t EXCEPT !.stdin = "idle"], broke |-> FALSE]
            ELSE [wp |-> Break(p, "ioerror"),
                  tty |-> [t EXCEPT !.stdin = "idle"], broke |-> TRUE]

\* lines 124-164: one turn of the loop in which select found something ready.
\* in_ok: the write to the master succeeds; out_ok: the write to stdout
\* succeeds; how: what a read of a master whose slave side is closed gives (an
\* empty read, or EIO); the k-th status write of the turn meets the fault.
\* A turn that finds only a stdin at end of file does nothing and comes back
\* to select, which is ready again at once: spins tells such turns apart
TurnWith(in_ok, out_ok, how) ==
    /\ wp.pc = "loop"
    /\ StdinReady \/ MasterReady
    /\ LET s == stdin_branch([wp EXCEPT !.wrote = "none", !.pub = <<>>],
                             tty, in_ok)
       IN  IF s.broke \/ ~MasterReady
           THEN /\ wp' = IF ~s.broke /\ tty.stdin = "eof"
                         THEN [s.wp EXCEPT !.spins = 1 - @]
                         ELSE [s.wp EXCEPT !.spins = 0]
                /\ tty' = s.tty
                /\ UNCHANGED <<fs, sw, clock>>
           ELSE IF tty.out = <<>>
           THEN /\ wp' = Break(s.wp, how)
                /\ tty' = s.tty
                /\ UNCHANGED <<fs, sw, clock>>
           ELSE IF ~out_ok
           THEN /\ wp' = Break(s.wp, "ioerror")
                /\ tty' = [s.tty EXCEPT !.out = Tail(@)]
                /\ UNCHANGED <<fs, sw, clock>>
           ELSE LET lines == NonBlank(split(Head(tty.out)))
                IN  \E k \in 0..Len(lines) :
                    \E fault \in IF k = 0 THEN {"none"}
                                 ELSE WriteFaults \ {"none"} :
                       LET r == process_lines(sw["w1"], fs, lines, clock, k, fault)
                           q == IF lines = <<>>
                                THEN [s.wp EXCEPT !.fwd_out = @ + 1, !.spins = 0]
                                ELSE Counted([s.wp EXCEPT !.fwd_out = @ + 1,
                                                          !.spins = 0, !.pub = r.pub,
                                                          !.last_ok =
                                                             IF r.last_ok = -1 THEN @
                                                             ELSE r.last_ok],
                                             fault)
                       IN  /\ sw' = [sw EXCEPT !["w1"] = r.self]
                           /\ fs' = r.fs
                           /\ clock' = r.now
                           /\ tty' = [s.tty EXCEPT !.out = Tail(@)]
                           /\ wp' = IF r.raised
                                    THEN Break(q, "ioerror")
                                    ELSE q
    /\ UNCHANGED <<child, sig, wl, issued, rd, registry>>

\* the outcomes the operations of a turn can have in the state it starts in
Turn ==
    \E in_ok \in IF tty.stdin = "data" THEN BOOLEAN ELSE {TRUE},
       out_ok \in IF tty.out # <<>> THEN BOOLEAN ELSE {TRUE},
       how \in IF tty.out = <<>> /\ SlaveClosed THEN {"eof", "ioerror"} ELSE {"eof"} :
          TurnWith(in_ok, out_ok, how)

\* lines 172-177: waitpid(pid, 0) waits for the child to exit and reaps it;
\* the exit code is the child's when it exited and 1 when a signal ended it;
\* the last record is published and the code returned.  A child that was
\* reaped before has no status left: waitpid raises ChildProcessError
Reap ==
    /\ wp.pc = "reap"
    /\ child.st \in {"zombie", "reaped"}
    /\ IF child.st = "reaped"
       THEN /\ wp' = [Raise(wp, "ChildProcessError") EXCEPT !.pub = <<>>]
            /\ UNCHANGED <<child, fs, sw, clock>>
       ELSE \E fault \in WriteFaults :
              LET exit_code == IF child.status.kind = "exit"
                               THEN child.status.code ELSE 1
                  u == update(sw["w1"], fs, EndState, SessionEnded, clock, fault)
                  p == [wp EXCEPT !.pub = <<u.self.state>>,
                                  !.last_ok = IF fault = "none" THEN clock ELSE @]
              IN  /\ child' = [child EXCEPT !.st = "reaped"]
                  /\ sw' = [sw EXCEPT !["w1"] = u.self]
                  /\ fs' = u.fs
                  /\ clock' = clock + 1
                  /\ wp' = IF u.raised
                           THEN Counted(Raise(p, "StatusError"), fault)
                           ELSE Counted([p EXCEPT !.pc = "returned",
                                                   !.exit_code = exit_code],
                                        fault)
    /\ UNCHANGED <<tty, sig, wl, issued, rd, registry>>

\* the supervisor process exists
Alive == wp.pc \notin {"returned", "raised", "killed"}

\* mutant of handle_signal: the handler returns without sending anything
handle_signal_dropped(c, sent, signum) ==
    [child |-> c, sent |-> sent, raised |-> FALSE]

\* mutant of handle_signal: the signal is sent on and the supervisor is then
\* made to leave by an exception raised from the handler
handle_signal_then_exit(c, sent, signum) ==
    [child |-> IF c.st = "running"
               THEN [c EXCEPT !.pending = @ \cup {signum}] ELSE c,
     sent |-> Append(sent, signum), raised |-> TRUE]

\* lines 111-113, handle_signal: os.kill(pid, signum).  The signal reaches a
\* child that runs, is lost on one that has exited, and the call raises
\* ProcessLookupError for a child that was reaped
handle_signal(c, sent, signum) ==
    IF c.st = "reaped"
    THEN [child |-> c, sent |-> sent, raised |-> TRUE]
    ELSE [child |-> IF c.st = "running"
                    THEN [c EXCEPT !.pending = @ \cup {signum}] ELSE c,
          sent |-> Append(sent, signum), raised |-> FALSE]

\* the supervisor process receives a signal.  With the handler installed
\* (lines 115-116) handle_signal runs and the interrupted code goes on; before
\* that SIGTERM ends the process and SIGINT raises KeyboardInterrupt outside
\* the try block
Signal(signum) ==
    /\ Alive
    /\ Events < MaxEvents
    /\ IF signum \in wp.handlers
       THEN LET h == handle_signal(child, sig.sent, signum)
            IN  /\ child' = h.child
                /\ sig' = [n |-> sig.n + 1, last |-> signum, sent |-> h.sent]
                /\ wp' = IF h.raised
                         THEN Raise(wp, "ProcessLookupError")
                         ELSE [wp EXCEPT !.wrote = "none"]
       ELSE /\ child' = child
            /\ sig' = [sig EXCEPT !.n = @ + 1, !.last = signum]
            /\ wp' = IF signum = "SIGINT"
                     THEN Raise(wp, "KeyboardInterrupt")
                     ELSE [wp EXCEPT !.pc = "killed", !.wrote = "none"]
    /\ UNCHANGED <<tty, stVars>>

\* the master side of the pty is open in the supervisor
MasterOpen == wp.pc \in {"forked", "sigint", "loop", "liveness"}

\* the child writes a chunk to its terminal
ChildWrites(chunk) ==
    /\ child.st = "running"
    /\ MasterOpen
    /\ Events < MaxEvents
    /\ tty' = [tty EXCEPT !.out = Append(@, chunk), !.emitted = @ + 1]
    /\ UNCHANGED <<wp, child, sig, stVars>>

\* the child exits with a code; held: a process it started keeps the slave
\* side of the pty open
ChildExits(code, held) ==
    /\ Alive
    /\ child.st = "running"
    /\ child' = [child EXCEPT !.st = "zombie",
                              !.status = [kind |-> "exit", code |-> code],
                              !.held = held, !.pending = {}]
    /\ UNCHANGED <<wp, tty, sig, stVars>>

\* a signal ends the child: one the supervisor sent on, or SIGKILL from outside
ChildDies(signum, held) ==
    /\ Alive
    /\ child.st = "running"
    /\ signum \in child.pending \cup {"SIGKILL"}
    /\ child' = [child EXCEPT !.st = "zombie",
                              !.status = [kind |-> "signal", code |-> 0],
                              !.held = held, !.pending = {}]
    /\ UNCHANGED <<wp, tty, sig, stVars>>

\* the child handles or ignores a signal and keeps running
ChildHandles(signum) ==
    /\ Alive
    /\ child.st = "running"
    /\ signum \in child.pending
    /\ child' = [child EXCEPT !.pending = @ \ {signum}]
    /\ UNCHANGED <<wp, tty, sig, stVars>>

\* the last process holding the slave side closes it
DescendantsExit ==
    /\ Alive
    /\ child.st \in {"zombie", "reaped"}
    /\ child.held
    /\ child' = [child EXCEPT !.held = FALSE]
    /\ UNCHANGED <<wp, tty, sig, stVars>>

\* the real stdin: something is typed, it reaches end of file, it breaks
UserTypes ==
    /\ Alive
    /\ tty.stdin = "idle"
    /\ Events < MaxEvents
    /\ tty' = [tty EXCEPT !.stdin = "data", !.typed = @ + 1]
    /\ UNCHANGED <<wp, child, sig, stVars>>

StdinCloses ==
    /\ Alive
    /\ tty.stdin = "idle"
    /\ tty' = [tty EXCEPT !.stdin = "eof"]
    /\ UNCHANGED <<wp, child, sig, stVars>>

StdinBreaks ==
    /\ Alive
    /\ tty.stdin = "idle"
    /\ tty' = [tty EXCEPT !.stdin = "error"]
    /\ UNCHANGED <<wp, child, sig, stVars>>

InitWrapper ==
    /\ ClassifierQuiet
    /\ StatusQuiet
    /\ WrapperQuiet
    /\ RegistryQuiet

NextWrapper ==
    \/ (Start \/ Fork \/ InstallSigint \/ InstallSigterm) /\ UNCHANGED <<clVars, rgVars>>
    \/ (SelectTimeout \/ LivenessCheck \/ Turn \/ Reap) /\ UNCHANGED <<clVars, rgVars>>
    \/ \E signum \in Signals : Signal(signum) /\ UNCHANGED <<clVars, rgVars>>
    \/ \E chunk \in OutChunks : ChildWrites(chunk) /\ UNCHANGED <<clVars, rgVars>>
    \/ \E code \in ExitCodes, held \in BOOLEAN :
          ChildExits(code, held) /\ UNCHANGED <<clVars, rgVars>>
    \/ \E signum \in Signals \cup {"SIGKILL"}, held \in BOOLEAN :
          ChildDies(signum, held) /\ UNCHANGED <<clVars, rgVars>>
    \/ \E signum \in Signals : ChildHandles(signum) /\ UNCHANGED <<clVars, rgVars>>
    \/ (DescendantsExit \/ UserTypes \/ StdinCloses \/ StdinBreaks)
          /\ UNCHANGED <<clVars, rgVars>>

SpecWrapper == InitWrapper /\ [][NextWrapper]_vars

\* the steps of the supervisor process itself: it is scheduled, so a step of
\* its own that stays possible is taken; the child, the user and the senders
\* of signals owe nothing
SupervisorStep ==
    (Start \/ Fork \/ InstallSigint \/ InstallSigterm
        \/ SelectTimeout \/ LivenessCheck \/ Turn \/ Reap) /\ UNCHANGED <<clVars, rgVars>>

SpecWrapperFair == SpecWrapper /\ WF_vars(SupervisorStep)

\* what the child writes in a run, as one stream of bytes
OutTexts ==
    { <<"E","r","r","o","r",":"," ","x","\n">>,
      <<"o","k","\n">> \o YesNoUpper \o <<"\n">> }

\* lines 147-158 with the output as a stream: os.read(master_fd, 1024) returns
\* the next n bytes of it, as many as have arrived; the text is split and every
\* line that is not blank is classified and published
ReadMaster(n) ==
    /\ rx.at + n <= Len(rx.text)
    /\ LET data  == SubSeq(rx.text, rx.at + 1, rx.at + n)
           lines == NonBlank(split(data))
           r     == process_lines(sw["w1"], fs, lines, clock, 0, "none")
       IN  /\ sw' = [sw EXCEPT !["w1"] = r.self]
           /\ fs' = r.fs
           /\ clock' = r.now
           /\ rx' = [rx EXCEPT !.at = @ + n, !.pub = @ \o r.pub]
    /\ UNCHANGED <<cl_line, cl_current, cl_result, wl, issued, rd, registry>>
    /\ UNCHANGED <<wrVars, rgVars>>

\* the supervisor in its loop after line 87, the whole output still to come
InitChunks ==
    /\ cl_line = <<>>
    /\ cl_current = "unknown"
    /\ cl_result = "none"
    /\ rx \in { [NoStream EXCEPT !.text = t] : t \in OutTexts }
    /\ LET u == update(NewStatusWriter("s1", 0), EmptyFs, StartState, StartingClaude,
                       0, "none")
       IN  /\ sw = [w \in Writers |-> IF w = "w1" THEN u.self
                                      ELSE NewStatusWriter("s1", 0)]
           /\ fs = u.fs
    /\ clock = 1
    /\ wl = [w \in Writers |-> IdleWriter]
    /\ issued = {}
    /\ rd = IdleReader
    /\ registry = {}
    /\ WrapperQuiet
    /\ RegistryQuiet

NextChunks == \E n \in 1..MaxRead : ReadMaster(n)

SpecChunks == InitChunks /\ [][NextChunks]_vars

----------------------------------------------------------------------------
(* tmux/controller.py: TmuxController over the tmux server.  A session name *)
(* is a sequence of pieces, so that the prefix is one piece of it.  When    *)
(* the server cannot be reached every libtmux call raises, and the server   *)
(* that is gone has taken its sessions with it.                             *)

\* config.py line 11
TMUX_SESSION_PREFIX == "claude-orchestra-"

\* manager.py line 78: f"{TMUX_SESSION_PREFIX}{session_id}"
tmux_name(id) == <<TMUX_SESSION_PREFIX, id>>

\* the names a tmux session can have here: the orchestra's, and a foreign one
TmuxNames == { tmux_name(id) : id \in SessionIds } \cup { <<"scratch">> }

\* str.startswith(prefix)
startswith(name, prefix) == name # <<>> /\ name[1] = prefix

\* str.replace(old, ""): every occurrence of old is removed
str_replace(name, old) == SelectSeq(name, LAMBDA piece : piece # old)

\* the string that is left of a name: its one piece, "" when nothing is left
joined(name) == IF name = <<>> THEN "" ELSE name[1]

\* a set of names as a list, in the server's order
RECURSIVE listed(_)
listed(S) == IF S = {} THEN <<>>
             ELSE LET n == CHOOSE x \in S : TRUE IN <<n>> \o listed(S \ {n})

\* mutant of kill_session: the session is left alive
kill_session_noop(t, name) == [tmux |-> t, ret |-> FALSE]

\* TmuxController.kill_session: True when the session existed and was killed,
\* False when there is none or libtmux raised
kill_session(t, name) ==
    IF t.up /\ name \in t.live
    THEN [tmux |-> [t EXCEPT !.live = @ \ {name}], ret |-> TRUE]
    ELSE [tmux |-> t, ret |-> FALSE]

\* mutant of create_session: the failure of libtmux is logged, not raised
create_session_swallowed(t, name, fault) ==
    [tmux |-> IF ~t.up \/ fault = "new_session" THEN kill_session(t, name).tmux
              ELSE [kill_session(t, name).tmux EXCEPT !.live = @ \cup {name}],
     raised |-> FALSE]

\* TmuxController.create_session: a session of that name is killed first;
\* fault names the libtmux call that raises: none, new_session, or the
\* send_keys of the command into the session that was made.  The server has
\* one session per name: new_session also raises when the name is still taken
create_session(t, name, fault) ==
    LET k == kill_session(t, name).tmux
    IN  IF ~t.up \/ fault = "new_session" \/ name \in k.live
        THEN [tmux |-> k, raised |-> TRUE]
        ELSE [tmux |-> [k EXCEPT !.live = @ \cup {name}],
              raised |-> fault = "send_keys"]

\* TmuxController.send_keys, send_raw_key, send_text_literal: True when the
\* session has a pane and the keys were sent
send_keys(t, name, ok) == t.up /\ name \in t.live /\ ok

\* TmuxController.capture_pane: the pane's lines, "" when there is none
capture_pane(t, name, ok) ==
    IF t.up /\ name \in t.live /\ ok THEN "pane output" ELSE ""

\* TmuxController.get_pane_cwd: the pane's directory, None when unavailable
get_pane_cwd(t, name, cwd) ==
    IF t.up /\ name \in t.live THEN cwd ELSE "None"

\* mutant of list_sessions: the prefix is not applied
list_sessions_unfiltered(t, prefix) ==
    IF t.up THEN listed(t.live) ELSE <<>>

\* TmuxController.list_sessions(prefix): the names that start with the prefix,
\* [] when libtmux raised
list_sessions(t, prefix) ==
    IF t.up THEN listed({ n \in t.live : startswith(n, prefix) }) ELSE <<>>

\* the operations of TmuxController
ControllerOps ==
    {"create_session", "kill_session", "send_keys", "send_raw_key",
     "send_text_literal", "capture_pane", "get_pane_cwd", "list_sessions",
     "session_exists"}

\* what each operation returns from its except clause
failure_value(op) ==
    CASE op \in {"kill_session", "send_keys", "send_raw_key", "send_text_literal",
                 "session_exists"} -> "False"
      [] op = "capture_pane"  -> ""
      [] op = "get_pane_cwd"  -> "None"
      [] op = "list_sessions" -> "[]"
      [] OTHER                -> "none"

\* the server property (lines 16-25): the connection is made on first use and
\* kept; connect_ok: libtmux.Server() returns
server(c, connect_ok) ==
    IF c.server # "None" THEN [ctl |-> c, exc |-> "none"]
    ELSE IF connect_ok THEN [ctl |-> [c EXCEPT !.server = "Server"], exc |-> "none"]
    ELSE [ctl |-> c, exc |-> "TmuxError"]

\* what the try block of an operation returns when nothing raises
returned_value(op, t, name) ==
    CASE op = "kill_session"   -> IF kill_session(t, name).ret THEN "True" ELSE "False"
      [] op \in {"send_keys", "send_raw_key", "send_text_literal"}
                               -> IF send_keys(t, name, TRUE) THEN "True" ELSE "False"
      [] op = "capture_pane"   -> capture_pane(t, name, TRUE)
      [] op = "get_pane_cwd"   -> get_pane_cwd(t, name, "/p")
      [] op = "list_sessions"  -> IF list_sessions(t, "") = <<>> THEN "[]" ELSE "names"
      [] op = "session_exists" -> IF name \in t.live THEN "True" ELSE "False"
      [] OTHER                 -> "none"

\* one operation of the controller as a whole (lines 27-182).  connect_ok:
\* libtmux.Server() returns; ok: the libtmux calls of the operation return;
\* killed: kill_session, called or run as line 35, killed a session.
\* Every operation but create_session reads self.server inside its
\* try/except Exception, and so catches the TmuxError of the property too;
\* create_session (lines 53-55) turns whatever was raised into a TmuxError
controller_call(op, c, t, name, connect_ok, ok) ==
    LET s == server(c, connect_ok)
    IN  IF op = "create_session"
        THEN IF s.exc # "none"
             THEN [ctl |-> s.ctl, tmux |-> t, ret |-> "none", exc |-> "TmuxError",
                   killed |-> FALSE]
             ELSE LET r == create_session(t, name, IF ok THEN "none" ELSE "new_session")
                  IN  [ctl |-> s.ctl, tmux |-> r.tmux,
                       ret |-> IF r.raised THEN "none" ELSE "session",
                       exc |-> IF r.raised THEN "TmuxError" ELSE "none",
                       killed |-> kill_session(t, name).ret]
        ELSE IF s.exc # "none" \/ ~ok \/ ~t.up
             THEN [ctl |-> s.ctl, tmux |-> t, ret |-> failure_value(op), exc |-> "none",
                   killed |-> FALSE]
             ELSE [ctl |-> s.ctl,
                   tmux |-> IF op = "kill_session" THEN kill_session(t, name).tmux ELSE t,
                   ret |-> returned_value(op, t, name), exc |-> "none",
                   killed |-> op = "kill_session" /\ kill_session(t, name).ret]

----------------------------------------------------------------------------
(* session/manager.py: SessionManager *)

\* the record of a call: its method, the id it was given, what it returned
\* or raised, and its calls to the terminal host in order
Called(op, id, ret, exc, calls) ==
    [NoCall EXCEPT !.op = op, !.id = id, !.ret = ret, !.exc = exc, !.calls = calls]

\* no call on the SessionManager is under way
Returned_ == call.ret # "pending"

\* models.py lines 28-38: the Session made by create_session (lines 80-87)
NewSession(id) ==
    [id |-> id, project_path |-> "/p", project_name |-> "p",
     task_description |-> "task", tmux_session |-> tmux_name(id)]

\* the Session made by reconnect_orphaned_sessions (lines 181-203): the pane's
\* directory and its last component, the home directory and "unknown" when
\* the directory is not known
ReconnectedSession(id, name, cwd) ==
    [id |-> id,
     project_path |-> IF cwd # "None" THEN cwd ELSE "~",
     project_name |-> IF cwd # "None" THEN "p" ELSE "unknown",
     task_description |-> "(reconnected session)", tmux_session |-> name]

\* the metadata file _save_session writes (lines 39-42)
SessionFile(session) == [kind |-> "json", session |-> session]

\* path.exists() on the metadata file and on the status file
MetaExists(m, id) == m[id].kind # "none"
StatusExists(f, id) == f.dir[StatusName(id)] # 0

\* get_session_status (lines 122-136) on the status directory as it is
get_session_status(f, id, now) ==
    IF ~StatusExists(f, id) THEN DefaultStatus(now)
    ELSE read_status(TRUE, f.inodes[f.dir[StatusName(id)]], now)

\* mutant of line 74: the project path is not looked at
project_path_exists_unchecked(exists) == TRUE

\* line 74: project_path.exists()
project_path_exists(exists) == exists

\* mutant of get_session: an unknown id gets a session made up for it
get_session_made_up(reg, ss, id) == IF id \in reg THEN ss[id] ELSE NewSession(id)

\* get_session (lines 118-120), self._sessions.get(session_id): the Session of
\* a known id, None for an unknown one
get_session(reg, ss, id) == IF id \in reg THEN ss[id] ELSE NoSession

\* mutant of line 179: every terminal counts as unknown
is_known_never(reg, session_id) == FALSE

\* line 179: session_id in self._sessions
is_known(reg, session_id) == session_id \in reg

\* an id uuid4 can give (line 77): one that nothing carries yet
\* the orders in which a dict can hold the keys ks
Orderings(ks) ==
    { o \in [1..Cardinality(ks) -> ks] : { o[i] : i \in 1..Cardinality(ks) } = ks }

\* mutant of dict assignment: a new key goes to the front
dict_set_front(o, k) ==
    IF \E i \in 1..Len(o) : o[i] = k THEN o ELSE <<k>> \o o

\* self._sessions[k] = session (lines 30, 93, 204): a new key goes to the end
\* of the dict, a key that is there keeps its place
dict_set(o, k) ==
    IF \E i \in 1..Len(o) : o[i] = k THEN o ELSE Append(o, k)

\* del self._sessions[k] (line 109): the other keys keep their order
dict_del(o, k) == SelectSeq(o, LAMBDA x : x # k)

\* list_sessions (lines 114-116): the values of the dict in its order
manager_list_sessions(o, ss) == [i \in 1..Len(o) |-> ss[o[i]]]

Fresh(id) ==
    /\ id \notin registry
    /\ deleted[id] = "no"
    /\ ~MetaExists(meta, id)
    /\ tmux_name(id) \notin tmux.live

\* create_session (lines 65-96) once uuid4 gave id.  exists: the project path
\* exists; fault: the libtmux call that raises, if any; saved: write_text
\* succeeds
create_session_with(id, exists, fault, saved) ==
    /\ IF ~project_path_exists(exists)
       THEN /\ call' = Called("create_session", id, "none", "SessionError", <<>>)
            /\ UNCHANGED <<registry, sessions, meta, tmux, order>>
       ELSE LET c == create_session(tmux, tmux_name(id), fault)
            IN  /\ tmux' = c.tmux
                /\ IF c.raised
                   THEN /\ call' = Called("create_session", id, "none", "TmuxError",
                                          <<"create_session">>)
                        /\ UNCHANGED <<registry, sessions, meta, order>>
                   ELSE /\ registry' = registry \cup {id}
                        /\ order' = dict_set(order, id)
                        /\ sessions' = [sessions EXCEPT ![id] = NewSession(id)]
                        /\ meta' = IF saved
                                   THEN [meta EXCEPT ![id] = SessionFile(NewSession(id))]
                                   ELSE meta
                        /\ call' = Called("create_session", id,
                                          IF saved THEN "session" ELSE "none",
                                          IF saved THEN "none" ELSE "SessionError",
                                          <<"create_session">>)
    /\ UNCHANGED <<fs, deleted>>

\* create_session when uuid4 gives an id that was never in use
CreateSession(id, exists, fault, saved) ==
    /\ Returned_
    /\ Fresh(id)
    /\ create_session_with(id, exists, fault, saved)

\* create_session as line 77 has it: the first eight hex digits of a random
\* uuid, 32 bits, which nothing compares with the ids in self._sessions
CreateSessionDrawn(id, exists, fault, saved) ==
    /\ Returned_
    /\ create_session_with(id, exists, fault, saved)

\* mutant of _delete_session_file: the metadata file is never unlinked
delete_session_file_status_only(m, f, id, meta_ok, status_ok) ==
    [meta |-> m,
     fs |-> IF status_ok THEN Collect(fs_unlink(f, StatusName(id)), {}) ELSE f,
     raised |-> FALSE]

\* mutant of _delete_session_file: a failed unlink is not caught
delete_session_file_uncaught(m, f, id, meta_ok, status_ok) ==
    [meta |-> IF meta_ok THEN [m EXCEPT ![id] = NoFile] ELSE m,
     fs |-> IF status_ok /\ meta_ok
            THEN Collect(fs_unlink(f, StatusName(id)), {}) ELSE f,
     raised |-> \/ (MetaExists(m, id) /\ ~meta_ok)
                \/ (meta_ok /\ StatusExists(f, id) /\ ~status_ok)]

\* _delete_session_file (lines 47-63): each file that exists is unlinked; an
\* unlink that fails is logged and the file stays
delete_session_file(m, f, id, meta_ok, status_ok) ==
    [meta |-> IF meta_ok THEN [m EXCEPT ![id] = NoFile] ELSE m,
     fs |-> IF status_ok THEN Collect(fs_unlink(f, StatusName(id)), {}) ELSE f,
     raised |-> FALSE]

\* delete_session, lines 100-106: an unknown id returns False at once; for a
\* known one the terminal is killed first, whatever comes of it
DeleteSession(id) ==
    /\ Returned_
    /\ IF get_session(registry, sessions, id) = NoSession
       THEN /\ call' = Called("delete_session", id, "False", "none", <<>>)
            /\ tmux' = tmux
       ELSE LET k == kill_session(tmux, get_session(registry, sessions, id).tmux_session)
            IN  /\ tmux' = k.tmux
                /\ call' = [Called("delete_session", id, "pending", "none",
                                   <<"kill_session">>) EXCEPT !.killed = k.ret]
    /\ UNCHANGED <<registry, sessions, meta, fs, deleted, order>>

\* delete_session, lines 108-112: the record is dropped from memory, the
\* files are removed, True is returned.  meta_ok, status_ok: the unlink of
\* the metadata file and of the status file succeeds
DeleteSessionFiles(meta_ok, status_ok) ==
    /\ call.op = "delete_session" /\ call.ret = "pending"
    /\ LET id == call.id
           d  == delete_session_file(meta, fs, id, meta_ok, status_ok)
       IN  /\ registry' = registry \ {id}
           /\ order' = dict_del(order, id)
           /\ sessions' = [sessions EXCEPT ![id] = NoSession]
           /\ meta' = d.meta
           /\ fs' = d.fs
           /\ call' = [call EXCEPT !.ret = IF d.raised THEN "none" ELSE "True",
                                   !.exc = IF d.raised THEN "OSError" ELSE "none"]
           /\ deleted' = IF d.raised THEN deleted
                         ELSE [deleted EXCEPT ![id] =
                                 IF MetaExists(d.meta, id) THEN "partial" ELSE "total"]
    /\ UNCHANGED tmux

\* reconnect_orphaned_sessions, the loop of lines 176-207 over the names that
\* are left: st is the registry, the metadata directory, the count and the
\* tmux calls so far; cwd is what pane_current_path gives; bad is the
\* terminal whose metadata file cannot be written
RECURSIVE reconnect_loop(_, _, _, _, _)
reconnect_loop(names, st, t, cwd, bad) ==
    IF names = <<>> THEN st
    ELSE LET tmux_session == Head(names)
             session_id   == joined(str_replace(tmux_session, TMUX_SESSION_PREFIX))
         IN  IF is_known(st.registry, session_id)
             THEN reconnect_loop(Tail(names), st, t, cwd, bad)
             ELSE LET session == ReconnectedSession(session_id, tmux_session,
                                     get_pane_cwd(t, tmux_session, cwd))
                      mem == [st EXCEPT !.registry = @ \cup {session_id},
                                        !.order = dict_set(@, session_id),
                                        !.sessions[session_id] = session,
                                        !.calls = Append(@, "get_pane_cwd")]
                  IN  IF tmux_session = bad
                      THEN [mem EXCEPT !.raised = TRUE]
                      ELSE reconnect_loop(Tail(names),
                               [mem EXCEPT !.meta[session_id] = SessionFile(session),
                                           !.count = @ + 1],
                               t, cwd, bad)

\* reconnect_orphaned_sessions (lines 170-208)
ReconnectOrphanedSessions(cwd, bad) ==
    /\ Returned_
    /\ LET r == reconnect_loop(list_sessions(tmux, TMUX_SESSION_PREFIX),
                    [registry |-> registry, order |-> order,
                     sessions |-> sessions, meta |-> meta,
                     count |-> 0, raised |-> FALSE, calls |-> <<"list_sessions">>],
                    tmux, cwd, bad)
       IN  /\ registry' = r.registry
           /\ order' = r.order
           /\ sessions' = r.sessions
           /\ meta' = r.meta
           /\ call' = [Called("reconnect_orphaned_sessions", "",
                              IF r.raised THEN "none" ELSE "count",
                              IF r.raised THEN "SessionError" ELSE "none", r.calls)
                         EXCEPT !.count = r.count,
                                !.again = /\ call.op = "reconnect_orphaned_sessions"
                                          /\ call.exc = "none"
                                          /\ call.still]
    /\ UNCHANGED <<tmux, fs, deleted>>

\* what a metadata file can hold besides a Session written by _save_session:
\* text that is not JSON, JSON that is not a Session, bytes that cannot be read
CorruptKinds == {"garbage", "invalid", "unreadable"}

\* what lines 28-29 raise on a file of each kind
load_error(kind) ==
    CASE kind = "garbage"    -> "JSONDecodeError"
      [] kind = "invalid"    -> "ValidationError"
      [] kind = "unreadable" -> "OSError"
      [] OTHER               -> "none"

\* mutant of lines 32-35: the except clauses are missing
load_session_uncaught(file) ==
    [ok |-> file.kind = "json", session |-> file.session, exc |-> load_error(file.kind)]

\* _load_sessions, lines 27-35, on one file: the Session it holds, or nothing
\* when reading, json.loads or model_validate raised, which is logged
load_session(file) ==
    [ok |-> file.kind = "json", session |-> file.session, exc |-> "none"]

\* SessionManager() anew (lines 18-22): _load_sessions (lines 24-35) fills the
\* registry from the metadata files that load
NewSessionManager ==
    /\ Returned_
    /\ LET files  == { id \in SessionIds : MetaExists(meta, id) }
           raised == { load_session(meta[id]).exc : id \in files } \ {"none"}
       IN  /\ registry' = { id \in files : load_session(meta[id]).ok }
           /\ order' \in Orderings({ id \in files : load_session(meta[id]).ok })
           /\ sessions' = [id \in SessionIds |->
                             IF id \in files /\ load_session(meta[id]).ok
                             THEN load_session(meta[id]).session ELSE NoSession]
           /\ call' = Called("__init__", "", "none",
                             IF raised = {} THEN "none" ELSE CHOOSE e \in raised : TRUE,
                             <<>>)
    /\ UNCHANGED <<meta, tmux, fs, deleted>>

\* a metadata file is damaged from outside the program
FileDamaged(id, kind) ==
    /\ MetaExists(meta, id)
    /\ meta[id].kind # kind
    /\ meta' = [meta EXCEPT ![id] = [kind |-> kind, session |-> NoSession]]
    /\ UNCHANGED <<registry, sessions, tmux, call, fs, deleted, order>>

\* the TmuxController method behind each send operation (lines 144, 152, 160)
SendOps == {"send_input", "send_raw_key", "send_text_literal"}
tmux_method(op) == CASE op = "send_input" -> "send_keys"
                     [] op = "send_raw_key" -> "send_raw_key"
                     [] op = "send_text_literal" -> "send_text_literal"

\* send_input, send_raw_key, send_text_literal (lines 138-160): False for an
\* unknown id, else what the TmuxController method returns.  ok: the pane
\* takes the keys
Send(op, id, ok) ==
    /\ Returned_
    /\ IF get_session(registry, sessions, id) = NoSession
       THEN call' = Called(op, id, "False", "none", <<>>)
       ELSE call' = Called(op, id,
                           IF send_keys(tmux,
                                  get_session(registry, sessions, id).tmux_session, ok)
                           THEN "True" ELSE "False",
                           "none", <<tmux_method(op)>>)
    /\ UNCHANGED <<registry, sessions, meta, tmux, fs, deleted, order>>

\* get_output (lines 162-168): "" for an unknown id, else the pane's text
GetOutput(id, ok) ==
    /\ Returned_
    /\ IF get_session(registry, sessions, id) = NoSession
       THEN call' = Called("get_output", id, "", "none", <<>>)
       ELSE call' = Called("get_output", id,
                           capture_pane(tmux,
                               get_session(registry, sessions, id).tmux_session, ok),
                           "none", <<"capture_pane">>)
    /\ UNCHANGED <<registry, sessions, meta, tmux, fs, deleted, order>>

\* the record of the last call once the terminal host has changed
Disturbed(c) ==
    IF c.op = "reconnect_orphaned_sessions" THEN [c EXCEPT !.still = FALSE] ELSE c

\* the tmux server goes away, and its sessions with it; it is started again
ServerDown ==
    /\ tmux.up
    /\ tmux' = [up |-> FALSE, live |-> {}]
    /\ call' = Disturbed(call)
    /\ UNCHANGED <<registry, sessions, meta, fs, deleted, order>>

ServerUp ==
    /\ ~tmux.up
    /\ tmux' = [tmux EXCEPT !.up = TRUE]
    /\ UNCHANGED <<registry, sessions, meta, call, fs, deleted, order>>

\* a terminal ends by itself: its command returned, or somebody killed it
TerminalExits(name) ==
    /\ tmux.up /\ name \in tmux.live
    /\ tmux' = [tmux EXCEPT !.live = @ \ {name}]
    /\ call' = Disturbed(call)
    /\ UNCHANGED <<registry, sessions, meta, fs, deleted, order>>

\* the wrapper that runs in a live terminal publishes its first record
\* (wrapper.py lines 86-87, manager.py line 233)
WrapperStarts(id) ==
    /\ tmux.up /\ tmux_name(id) \in tmux.live
    /\ ~StatusExists(fs, id)
    /\ fs' = update(NewStatusWriter(id, clock), fs, "working", StartingClaude,
                    clock, "none").fs
    /\ UNCHANGED <<registry, sessions, meta, call, tmux, deleted, order>>

CreateFaults == {"none", "new_session", "send_keys"}
PaneCwds == {"/p", "None"}

InitRegistry ==
    /\ ClassifierQuiet
    /\ WrapperQuiet
    /\ fs = EmptyFs
    /\ clock = 0
    /\ sw = [w \in Writers |-> NewStatusWriter("s1", 0)]
    /\ wl = [w \in Writers |-> IdleWriter]
    /\ issued = {}
    /\ rd = IdleReader
    /\ registry = {}
    /\ sessions = [id \in SessionIds |-> NoSession]
    /\ meta = [id \in SessionIds |-> NoFile]
    /\ tmux \in { [up |-> TRUE, live |-> l] : l \in SUBSET TmuxNames }
    /\ call = NoCall
    /\ deleted = [id \in SessionIds |-> "no"]
    /\ order = <<>>
    /\ ctl = NewTmuxController
    /\ mgrs = NoManagers

RegistryFrame == UNCHANGED <<clVars, wrVars, clock, sw, wl, issued, rd, ctl, mgrs>>

NextRegistry ==
    \/ (\E id \in SessionIds, exists \in BOOLEAN, fault \in CreateFaults, saved \in BOOLEAN :
            CreateSession(id, exists, fault, saved)) /\ RegistryFrame
    \/ (\E id \in SessionIds : DeleteSession(id)) /\ RegistryFrame
    \/ (\E meta_ok, status_ok \in BOOLEAN : DeleteSessionFiles(meta_ok, status_ok))
            /\ RegistryFrame
    \/ (\E cwd \in PaneCwds, bad \in TmuxNames \cup {<<>>} :
            ReconnectOrphanedSessions(cwd, bad)) /\ RegistryFrame
    \/ NewSessionManager /\ RegistryFrame
    \/ ServerDown /\ RegistryFrame
    \/ ServerUp /\ RegistryFrame
    \/ (\E name \in TmuxNames : TerminalExits(name)) /\ RegistryFrame
    \/ (\E id \in SessionIds : WrapperStarts(id)) /\ RegistryFrame

SpecRegistry == InitRegistry /\ [][NextRegistry]_vars

\* the supervisor of s1 starts where another session, s2, has its metadata
\* file and its status file
InitBeside ==
    /\ ClassifierQuiet
    /\ WrapperQuiet
    /\ fs = FsWith("s2", GoodRecord("waiting"))
    /\ clock = 0
    /\ sw = [w \in Writers |-> NewStatusWriter("s1", 0)]
    /\ wl = [w \in Writers |-> IdleWriter]
    /\ issued = {}
    /\ rd = IdleReader
    /\ registry = {"s1", "s2"}
    /\ sessions = [id \in SessionIds |-> NewSession(id)]
    /\ meta = [id \in SessionIds |-> SessionFile(NewSession(id))]
    /\ tmux = [up |-> TRUE, live |-> { tmux_name(id) : id \in SessionIds }]
    /\ call = NoCall
    /\ deleted = [id \in SessionIds |-> "no"]
    /\ order = <<"s1", "s2">>
    /\ ctl = NewTmuxController
    /\ mgrs = NoManagers

SpecBeside == InitBeside /\ [][NextWrapper]_vars

\* an operation is called on the TmuxController
ControllerCall(op, name, connect_ok, ok) ==
    /\ LET r == controller_call(op, ctl, tmux, name, connect_ok, ok)
       IN  /\ ctl' = r.ctl
           /\ tmux' = r.tmux
           /\ call' = [Called(op, "", r.ret, r.exc, <<>>) EXCEPT !.killed = r.killed]
    /\ UNCHANGED <<registry, sessions, meta, fs, deleted, order, mgrs>>
    /\ UNCHANGED <<clVars, wrVars, clock, sw, wl, issued, rd>>

InitTmux == InitRegistry

NextTmux ==
    \/ \E op \in ControllerOps, name \in TmuxNames, connect_ok, ok \in BOOLEAN :
            ControllerCall(op, name, connect_ok, ok)
    \/ ServerDown /\ RegistryFrame
    \/ ServerUp /\ RegistryFrame
    \/ (\E name \in TmuxNames : TerminalExits(name)) /\ RegistryFrame

SpecTmux == InitTmux /\ [][NextTmux]_vars

\* the registry when line 77 may draw any id
NextIds ==
    \/ (\E id \in SessionIds, exists \in BOOLEAN, fault \in CreateFaults, saved \in BOOLEAN :
            CreateSessionDrawn(id, exists, fault, saved)) /\ RegistryFrame
    \/ (\E id \in SessionIds : DeleteSession(id)) /\ RegistryFrame
    \/ (\E meta_ok, status_ok \in BOOLEAN : DeleteSessionFiles(meta_ok, status_ok))
            /\ RegistryFrame
    \/ (\E name \in TmuxNames : TerminalExits(name)) /\ RegistryFrame

\* no terminal runs before the first create_session
InitIds == InitRegistry /\ tmux.live = {}

SpecIds == InitIds /\ [][NextIds]_vars

\* the metadata files a session directory can hold for one id
MetaFiles(id) ==
    {NoFile, SessionFile(NewSession(id)),
     SessionFile(ReconnectedSession(id, tmux_name(id), "/p"))}
        \cup { [kind |-> k, session |-> NoSession] : k \in CorruptKinds }

\* startup over every session directory
InitLoad ==
    /\ ClassifierQuiet
    /\ WrapperQuiet
    /\ fs = EmptyFs
    /\ clock = 0
    /\ sw = [w \in Writers |-> NewStatusWriter("s1", 0)]
    /\ wl = [w \in Writers |-> IdleWriter]
    /\ issued = {}
    /\ rd = IdleReader
    /\ registry = {}
    /\ sessions = [id \in SessionIds |-> NoSession]
    /\ meta \in [SessionIds -> UNION { MetaFiles(id) : id \in SessionIds }]
    /\ \A id \in SessionIds : meta[id] \in MetaFiles(id)
    /\ tmux = [up |-> TRUE, live |-> {}]
    /\ call = NoCall
    /\ deleted = [id \in SessionIds |-> "no"]
    /\ order = <<>>
    /\ ctl = NewTmuxController
    /\ mgrs = NoManagers

NextLoad ==
    \/ NewSessionManager /\ RegistryFrame
    \/ (\E id \in SessionIds, kind \in CorruptKinds : FileDamaged(id, kind))
            /\ RegistryFrame

SpecLoad == InitLoad /\ [][NextLoad]_vars

\* the operations that reach into a terminal, over every registry of sessions
\* made by create_session and every set of live terminals
InitSend ==
    /\ ClassifierQuiet
    /\ WrapperQuiet
    /\ fs = EmptyFs
    /\ clock = 0
    /\ sw = [w \in Writers |-> NewStatusWriter("s1", 0)]
    /\ wl = [w \in Writers |-> IdleWriter]
    /\ issued = {}
    /\ rd = IdleReader
    /\ registry \in SUBSET SessionIds
    /\ sessions = [id \in SessionIds |->
                     IF id \in registry THEN NewSession(id) ELSE NoSession]
    /\ meta = [id \in SessionIds |->
                 IF id \in registry THEN SessionFile(NewSession(id)) ELSE NoFile]
    /\ tmux \in { [up |-> TRUE, live |-> l] : l \in SUBSET TmuxNames }
    /\ call = NoCall
    /\ deleted = [id \in SessionIds |-> "no"]
    /\ order \in Orderings(registry)
    /\ ctl = NewTmuxController
    /\ mgrs = NoManagers

NextSend ==
    \/ (\E op \in SendOps, id \in SessionIds, ok \in BOOLEAN : Send(op, id, ok))
            /\ RegistryFrame
    \/ (\E id \in SessionIds, ok \in BOOLEAN : GetOutput(id, ok)) /\ RegistryFrame
    \/ ServerDown /\ RegistryFrame
    \/ ServerUp /\ RegistryFrame
    \/ (\E name \in TmuxNames : TerminalExits(name)) /\ RegistryFrame

SpecSend == InitSend /\ [][NextSend]_vars

----------------------------------------------------------------------------
(* C2: for a line that is non-empty after trimming, a match of any waiting *)
(* pattern gives waiting, also when an error or working pattern matches;   *)
(* otherwise a match of any error pattern gives error.                     *)
C2_Precedence ==
    (cl_result # "none" /\ strip(cl_line) # <<>>) =>
        /\ MatchesWaiting(strip(cl_line)) => cl_result = "waiting"
        /\ (~MatchesWaiting(strip(cl_line)) /\ MatchesError(strip(cl_line)))
              => cl_result = "error"

\* a classified line that matches a waiting, an error pattern at once
C2_Witness ==
    /\ cl_result = "waiting"
    /\ MatchesWaiting(strip(cl_line))
    /\ MatchesError(strip(cl_line))

(* C3: a line that is empty or only whitespace returns the previous state, *)
(* for each of the five states.                                            *)
C3_BlankKeepsState ==
    (cl_result # "none" /\ \A i \in 1..Len(cl_line) : IsSpace(cl_line[i]))
        => cl_result = cl_current

\* a whitespace-only line classified with previous state idle
C3_Witness ==
    /\ cl_result = "idle"
    /\ Len(cl_line) >= 2
    /\ \A i \in 1..Len(cl_line) : IsSpace(cl_line[i])

C1_ReadsComplete ==
    /\ rd.saw = "text" =>
          \E st \in issued : rd.text = json_dump(st) /\ rd.result = st
    /\ fs.dir[StatusName(Sid)] # 0 =>
          \E st \in issued : fs.inodes[fs.dir[StatusName(Sid)]] = json_dump(st)

\* the reader has read the record of writer w2 while writer w1 is between its
\* write and its rename
C1_Witness ==
    /\ rd.saw = "text"
    /\ rd.result.state = "waiting"
    /\ wl["w1"].pc = "rename"

(* C5: when update(state, line) has succeeded for a line that is not blank *)
(* and the status file is then read back, the record has that state and    *)
(* the stripped line cut to 200 characters; no stored last_output is       *)
(* longer than 200 characters.                                             *)
C5_RoundTrip ==
    /\ ( /\ rd.pc = "returned"
         /\ rd.saw = "text"
         /\ wl["w1"].pc = "idle"
         /\ wl["w1"].result = "ok"
         /\ strip(wl["w1"].line) # <<>> )
       => /\ rd.result.state = wl["w1"].state
          /\ rd.result.last_output = Prefix(strip(wl["w1"].line), MaxLastOutput)
    /\ \A i \in 1..MaxInodes : \A j \in 1..Len(fs.inodes[i]) :
          (fs.inodes[i][j].tok = "member" /\ fs.inodes[i][j].key = "last_output")
             => Len(fs.inodes[i][j].val.v) <= MaxLastOutput

\* a line of more than 200 characters after stripping was published with state
\* error and read back cut to 200
C5_Witness ==
    /\ rd.pc = "returned"
    /\ rd.saw = "text"
    /\ wl["w1"].pc = "idle"
    /\ wl["w1"].result = "ok"
    /\ wl["w1"].state = "error"
    /\ Len(strip(wl["w1"].line)) > MaxLastOutput
    /\ Len(rd.result.last_output) = MaxLastOutput

\* the text of a complete record: an object whose state, last_output and
\* updated_at members, where present, have the types of SessionStatus
IsRecordText(text) ==
    /\ Len(text) >= 2
    /\ text[1] = TokOpen
    /\ text[Len(text)] = TokClose
    /\ \A i \in 2..(Len(text) - 1) :
          /\ text[i].tok = "member"
          /\ text[i].key = "state" =>
                (text[i].val.t = "word" /\ text[i].val.v \in SessionState)
          /\ text[i].key = "last_output" => text[i].val.t = "text"
          /\ text[i].key = "updated_at" => text[i].val.t \in {"iso", "num"}

(* C6: get_session_status never raises; it returns state unknown when the  *)
(* file is absent, cannot be read, or its text is not a complete valid     *)
(* record, whether or not the registry knows the id.                       *)
C6_ReadNeverRaises ==
    rd.pc = "returned" =>
        /\ rd.result.state \in SessionState
        /\ rd.saw \in {"absent", "unreadable"} => rd.result.state = "unknown"
        /\ (rd.saw = "text" /\ ~IsRecordText(rd.text)) => rd.result.state = "unknown"

\* a file whose state is outside the enumeration was read for an id the
\* registry does not know, and unknown came back
C6_Witness ==
    /\ rd.pc = "returned"
    /\ rd.saw = "text"
    /\ rd.text = <<TokOpen, Member("state", JWord("bogus")), TokClose>>
    /\ rd.result.state = "unknown"
    /\ Sid \notin registry

----------------------------------------------------------------------------
(* C7: when a step of a status write fails (mkstemp, the write, the rename) *)
(* update returns without raising and the supervisor goes on: after the     *)
(* first record it opens the pty, in the loop it stays in the loop, after   *)
(* the last record it returns.  No exception leaves run_wrapper and the     *)
(* loop is not left because of the failed write.                            *)
C7_StatusWriteNotFatal ==
    wp.wrote = "failed" =>
        /\ wp.exc = "none"
        /\ wp.pc \in {"opened", "loop", "returned"}
        /\ wp.pc = "loop" => wp.left = "none"

\* a status write has failed in a turn of the loop that forwarded a chunk,
\* and the supervisor is in its loop
C7_Witness ==
    /\ wp.wrote = "failed"
    /\ wp.pc = "loop"
    /\ wp.fwd_out >= 1
    /\ fs.dir[StatusName("s1")] # 0
    /\ json_loads(fs.inodes[fs.dir[StatusName("s1")]]).ok
    /\ sw["w1"].last_update > 0

----------------------------------------------------------------------------
(* C8: on every path by which the loop is left (end of stream on the       *)
(* master, an I/O error, the liveness check) run_wrapper ends by returning: *)
(* the child is reaped, the writer's last record is idle "Session ended",   *)
(* it is in the status file when its write succeeded, and an integer exit   *)
(* code is returned.                                                        *)
C8_EveryExitReapsAndReturns ==
    (wp.left \in {"eof", "ioerror", "liveness"} /\ wp.pc \in {"returned", "raised"}) =>
        /\ wp.pc = "returned"
        /\ child.st = "reaped"
        /\ sw["w1"].state = "idle"
        /\ sw["w1"].last_output = SessionEnded
        /\ wp.wrote = "ok" =>
              fs.inodes[fs.dir[StatusName("s1")]] = json_dump(status_dict(sw["w1"]))
        /\ wp.exit_code \in 0..255

----------------------------------------------------------------------------
(* C9: when run_wrapper has ended after its loop, it has returned the exit  *)
(* code of a child that exited, and 1 for a child that a signal ended,      *)
(* whichever event made the loop stop.                                      *)
C9_ReturnsChildExitCode ==
    (wp.left # "none" /\ wp.pc \in {"returned", "raised"}) =>
        /\ child.status.kind = "exit" =>
              wp.pc = "returned" /\ wp.exit_code = child.status.code
        /\ child.status.kind = "signal" =>
              wp.pc = "returned" /\ wp.exit_code = 1

----------------------------------------------------------------------------
(* C10: a SIGINT or SIGTERM that the supervisor receives in its             *)
(* multiplexing loop while the child runs is sent to the child, the same    *)
(* signal, and the supervisor stays where it is in the loop: it is not      *)
(* ended and no exception is raised.                                        *)
C10_SignalForwarded ==
    [][ (sig'.n = sig.n + 1 /\ wp.pc \in {"loop", "liveness"} /\ child.st = "running")
            => /\ sig'.sent = Append(sig.sent, sig'.last)
               /\ sig'.last \in child'.pending
               /\ child'.st = "running"
               /\ wp'.pc = wp.pc
               /\ wp'.exc = "none" ]_vars

\* a signal was received in the loop, the child has it, both go on
C10_Witness ==
    /\ sig.n = 1
    /\ sig.sent = <<sig.last>>
    /\ wp.pc = "loop"
    /\ wp.handlers = Signals
    /\ child.st = "running"
    /\ sig.last \in child.pending

----------------------------------------------------------------------------
(* C11 as stated: once the supervisor has relayed a signal to the child it  *)
(* eventually leaves its multiplexing loop (and then terminates), whatever  *)
(* the child does with the signal.  Leaving the loop is the first half of   *)
(* what is claimed; it is what the formula asks for, in the executions the  *)
(* claim names: those where the child keeps running and stdin stays open.   *)
C11_LeavesLoopAfterSignal ==
    \/ <>(child.st = "zombie")
    \/ <>(tty.stdin \in {"eof", "error"})
    \/ (sig.sent # <<>>) ~> (wp.pc \notin {"forked", "sigint", "loop", "liveness"})

(* C11 as the code has it: the supervisor never leaves its multiplexing     *)
(* loop in the step that receives a signal; it leaves only by one of the    *)
(* three exits of the loop, and by end of stream or the liveness check only *)
(* when the child is no longer running.  A child that handles the signal    *)
(* and keeps running keeps the supervisor in its loop.                      *)
C11_LeavesLoopOnlyOnChildExit ==
    [][ (wp.pc \in {"loop", "liveness"} /\ wp'.pc \notin {"loop", "liveness"})
            => /\ sig' = sig
               /\ wp'.pc = "reap"
               /\ wp'.left \in {"eof", "ioerror", "liveness"}
               /\ wp'.left \in {"eof", "liveness"} => child.st # "running" ]_vars

\* the signal was relayed, the child has handled it and runs on, the
\* supervisor has forwarded output since and is in its loop
C11_Witness ==
    /\ sig.sent # <<>>
    /\ child.st = "running"
    /\ child.pending = {}
    /\ wp.pc = "loop"
    /\ wp.fwd_out >= 1
    /\ tty.out = <<>>

----------------------------------------------------------------------------
(* C12: create_session with a project path that does not exist raises      *)
(* SessionError, makes no call to the terminal host, and leaves the         *)
(* sessions in memory and the metadata directory as they were.              *)
C12_MissingPathCreatesNothing ==
    [][ \A id \in SessionIds, fault \in CreateFaults, saved \in BOOLEAN :
          (call'.id = id /\ CreateSession(id, FALSE, fault, saved))
            => /\ call'.exc = "SessionError"
               /\ call'.calls = <<>>
               /\ tmux' = tmux
               /\ registry' = registry
               /\ sessions' = sessions
               /\ meta' = meta ]_vars

\* such a call was made while the registry held a session and a terminal
\* was live
C12_Witness ==
    /\ call.op = "create_session"
    /\ call.exc = "SessionError"
    /\ call.calls = <<>>
    /\ registry # {}
    /\ tmux.live # {}

(* C13: when the terminal host fails to create the terminal during          *)
(* create_session (the server is out of reach, or new_session or the        *)
(* send_keys of the command raises), TmuxError comes out, the new id is not *)
(* in the registry and no metadata file is written for it.                  *)
C13_FailedTerminalPersistsNothing ==
    [][ \A id \in SessionIds, fault \in CreateFaults, saved \in BOOLEAN :
          ((fault # "none" \/ ~tmux.up) /\ call'.id = id
                /\ CreateSession(id, TRUE, fault, saved))
            => /\ call'.exc = "TmuxError"
               /\ id \notin registry'
               /\ sessions'[id] = NoSession
               /\ ~MetaExists(meta', id)
               /\ registry' = registry
               /\ meta' = meta ]_vars

\* a create_session ended in TmuxError although the host could be reached
C13_Witness ==
    /\ call.op = "create_session"
    /\ call.exc = "TmuxError"
    /\ call.id \notin registry
    /\ ~MetaExists(meta, call.id)
    /\ tmux.up

(* C14 as the spec has it: once delete_session(id) has returned True,       *)
(* get_session(id) is absent, id is not in list_sessions(), the status of   *)
(* id is unknown, and neither a metadata file nor a status file of id       *)
(* exists.                                                                  *)
C14_DeleteIsTotal ==
    (call.op = "delete_session" /\ call.ret = "True")
        => /\ call.id \notin registry
           /\ get_session(registry, sessions, call.id) = NoSession
           /\ get_session_status(fs, call.id, clock).state = "unknown"
           /\ ~MetaExists(meta, call.id)
           /\ ~StatusExists(fs, call.id)

(* C14 as the code has it: delete_session of a known id returns True with   *)
(* the id gone from memory; each of the two files is gone when its unlink   *)
(* succeeded and is left as it was when its unlink failed; the status is    *)
(* unknown when the status file is gone.                                    *)
C14_DeleteRemovesWhatItCan ==
    [][ \A meta_ok, status_ok \in BOOLEAN :
          DeleteSessionFiles(meta_ok, status_ok)
            => /\ call'.ret = "True"
               /\ call.id \notin registry'
               /\ get_session(registry', sessions', call.id) = NoSession
               /\ meta_ok => ~MetaExists(meta', call.id)
               /\ ~meta_ok => meta' = meta
               /\ status_ok => /\ ~StatusExists(fs', call.id)
                               /\ get_session_status(fs', call.id, clock').state = "unknown"
               /\ ~status_ok => fs' = fs ]_vars

\* delete_session has returned True and both files of the id are still there
C14_Witness ==
    /\ call.op = "delete_session"
    /\ call.ret = "True"
    /\ call.id \notin registry
    /\ MetaExists(meta, call.id)
    /\ StatusExists(fs, call.id)

C16_DeleteUnknownIsNoOp ==
    [][ \A id \in SessionIds :
          (id \notin registry /\ DeleteSession(id))
            => /\ call'.ret = "False"
               /\ call'.exc = "none"
               /\ call'.calls = <<>>
               /\ tmux' = tmux
               /\ registry' = registry
               /\ sessions' = sessions
               /\ meta' = meta
               /\ fs' = fs ]_vars

\* delete_session of an unknown id has returned False while a terminal named
\* for that id is live and has a status file, and another session is known
C16_Witness ==
    /\ call.op = "delete_session"
    /\ call.ret = "False"
    /\ call.id \notin registry
    /\ registry # {}
    /\ tmux_name(call.id) \in tmux.live
    /\ StatusExists(fs, call.id)

(* C17: for an id that is in the registry, delete_session first tries to    *)
(* kill the terminal, with the record and the files still in place, and     *)
(* then removes the record from memory and returns True without raising,    *)
(* also when the kill failed and when the removal of the metadata file or   *)
(* of the status file fails.                                                *)
C17_DeleteKnownAlwaysTrue ==
    [][ /\ \A id \in SessionIds :
             (id \in registry /\ DeleteSession(id))
               => /\ call'.ret = "pending"
                  /\ call'.calls = <<"kill_session">>
                  /\ call'.killed = (tmux.up /\ sessions[id].tmux_session \in tmux.live)
                  /\ sessions[id].tmux_session \notin tmux'.live
                  /\ registry' = registry
                  /\ sessions' = sessions
                  /\ meta' = meta
                  /\ fs' = fs
        /\ \A meta_ok, status_ok \in BOOLEAN :
             DeleteSessionFiles(meta_ok, status_ok)
               => /\ call'.ret = "True"
                  /\ call'.exc = "none"
                  /\ call'.calls = <<"kill_session">>
                  /\ call.id \in registry
                  /\ call.id \notin registry'
                  /\ sessions'[call.id] = NoSession
                  /\ tmux' = tmux ]_vars

\* delete_session has returned True although kill_session returned False and
\* neither file of the id could be removed
C17_Witness ==
    /\ call.op = "delete_session"
    /\ call.ret = "True"
    /\ ~call.killed
    /\ call.id \notin registry
    /\ MetaExists(meta, call.id)
    /\ StatusExists(fs, call.id)

C19_SecondReconnectAdoptsNothing ==
    [][ \A cwd \in PaneCwds, bad \in TmuxNames \cup {<<>>} :
          ( /\ call.op = "reconnect_orphaned_sessions"
            /\ call.exc = "none"
            /\ call.still
            /\ ReconnectOrphanedSessions(cwd, bad) )
            => /\ call'.again
               /\ call'.exc = "none"
               /\ call'.ret = "count"
               /\ call'.count = 0
               /\ registry' = registry
               /\ sessions' = sessions
               /\ meta' = meta ]_vars

\* a second reconnect in a row has returned, with a live terminal that the
\* first one had adopted and a live terminal of a session made by
\* create_session
C19_Witness ==
    /\ call.op = "reconnect_orphaned_sessions"
    /\ call.again
    /\ call.count = 0
    /\ \E id \in registry : /\ sessions[id].task_description = "(reconnected session)"
                           /\ sessions[id].tmux_session \in tmux.live
    /\ \E id \in registry : /\ sessions[id].task_description = "task"
                           /\ sessions[id].tmux_session \in tmux.live

(* C20: send_input, send_raw_key and send_text_literal with an id that is   *)
(* not in the registry return False, without raising and without any call  *)
(* to the terminal host; get_output with such an id returns the empty       *)
(* string, likewise.                                                        *)
C20_UnknownIdReachesNoTerminal ==
    [][ \A id \in SessionIds \ registry, ok \in BOOLEAN :
          /\ \A op \in SendOps :
               Send(op, id, ok)
                 => /\ call'.ret = "False"
                    /\ call'.exc = "none"
                    /\ call'.calls = <<>>
          /\ GetOutput(id, ok)
               => /\ call'.ret = ""
                  /\ call'.exc = "none"
                  /\ call'.calls = <<>> ]_vars

\* a send operation or get_output was called with an unknown id while a
\* terminal named for that id was live, and came back with False or ""
C20_Witness ==
    /\ call.op \in SendOps \cup {"get_output"}
    /\ call.id \notin registry
    /\ call.ret \in {"False", ""}
    /\ call.calls = <<>>
    /\ tmux.up
    /\ tmux_name(call.id) \in tmux.live

(* C21: constructing a SessionManager over a session directory with any mix *)
(* of valid and corrupt metadata files never raises; afterwards the         *)
(* registry holds exactly the sessions of the valid files, each as its file *)
(* has it, and no file is touched.                                          *)
C21_LoadSkipsCorruptFiles ==
    [][ NewSessionManager
          => /\ call'.exc = "none"
             /\ registry' = { id \in SessionIds : meta[id].kind = "json" }
             /\ \A id \in SessionIds :
                  sessions'[id] = IF meta[id].kind = "json"
                                  THEN meta[id].session ELSE NoSession
             /\ meta' = meta ]_vars

\* a SessionManager was constructed over a valid file and a corrupt one: the
\* valid one is in the registry, the corrupt one is not
C21_Witness ==
    /\ call.op = "__init__"
    /\ call.exc = "none"
    /\ \E id \in SessionIds : meta[id].kind = "json" /\ id \in registry
    /\ \E id \in SessionIds : meta[id].kind \in CorruptKinds /\ id \notin registry

(* C22: the identifier create_session generates is never the identifier of  *)
(* a session already in the registry, so create_session never changes the   *)
(* record, the metadata file or the terminal of a session that was there.   *)
C22_GeneratedIdIsNew ==
    [][ \A id \in SessionIds, fault \in CreateFaults, saved \in BOOLEAN :
            CreateSessionDrawn(id, TRUE, fault, saved)
              => /\ id \notin registry
                 /\ \A other \in registry :
                      /\ sessions'[other] = sessions[other]
                      /\ meta'[other] = meta[other]
                      /\ (sessions[other].tmux_session \in tmux.live
                            => sessions[other].tmux_session \in tmux'.live) ]_vars

(* C23: list_sessions returns the sessions in the order in which they were  *)
(* loaded or inserted: create_session and adoption append at the end,       *)
(* deleting leaves the others in their relative order, and with no          *)
(* mutation in between the same sequence is returned again.                 *)
C23_ListOrderIsInsertionOrder ==
    [][ /\ { order'[i] : i \in 1..Len(order') } = registry'
        /\ Len(order') = Cardinality(registry')
        /\ ~NewSessionManager
             => /\ registry \subseteq registry'
                  => /\ Len(order) <= Len(order')
                     /\ SubSeq(manager_list_sessions(order', sessions'), 1, Len(order))
                          = manager_list_sessions(order, sessions)
                /\ registry' \subseteq registry
                  => manager_list_sessions(order', sessions')
                       = SelectSeq(manager_list_sessions(order, sessions),
                                   LAMBDA x : x.id \in registry') ]_vars

\* create_session returned a session that list_sessions gives last, after
\* one that was there before
C23_Witness ==
    /\ call.op = "create_session"
    /\ call.ret = "session"
    /\ Len(order) = 2
    /\ manager_list_sessions(order, sessions)[2].id = call.id

(* C24: every TmuxController operation returns its failure value (False,    *)
(* empty string, empty list, None) and does not raise when the libtmux call *)
(* under it fails, except that a failure to connect to the tmux server      *)
(* reaches the caller of the operation that made the connection as a        *)
(* TmuxError.                                                               *)
C24_FailureValueUnlessConnectFails ==
    [][ \A op \in ControllerOps, name \in TmuxNames, connect_ok, ok \in BOOLEAN :
            ControllerCall(op, name, connect_ok, ok)
              => IF ctl.server = "None" /\ ~connect_ok
                 THEN call'.exc = "TmuxError"
                 ELSE /\ call'.exc = "none"
                      /\ (~ok \/ ~tmux.up) => call'.ret = failure_value(op) ]_vars

(* C25: the first record the supervisor publishes has state working and is  *)
(* published before the child is forked; every record published while the   *)
(* loop runs has state working, waiting or error; a record with state idle  *)
(* is published only once the loop was left, and nothing is published after *)
(* it; state unknown is never published.                                    *)
C25_PublishedStatesByPhase ==
    [][ LET P == wp'.pub
            states(S) == \A i \in 1..Len(P) : P[i] \in S
        IN  /\ states({"working", "waiting", "error", "idle"})
            /\ wp.pc = "start" => wp.pub = <<>> /\ fs.dir[StatusName("s1")] = 0
            /\ wp.pc = "start" /\ wp'.pc # "start" /\ P # <<>>
                 => P = <<"working">> /\ child.st = "none" /\ child'.st = "none"
            /\ wp'.pc = "opened" => P = <<"working">>
            /\ wp'.pc \in {"forked", "sigint", "liveness"} => P = <<>>
            /\ wp'.pc \in {"loop", "reap"} => states({"working", "waiting", "error"})
            /\ (\E i \in 1..Len(P) : P[i] = "idle")
                 => /\ P = <<"idle">>
                    /\ ~Alive'
                    /\ wp.pc = "reap" \/ wp.pub = P
            /\ ~Alive => P = wp.pub /\ fs' = fs
            /\ fs' # fs => wp.pc \in {"start", "loop", "reap"} /\ P # <<>> ]_vars

\* the run went through all three phases: the first record, two reads
\* forwarded by the loop, and the idle record as the last one published
C25_Witness ==
    /\ wp.pc = "returned"
    /\ wp.pub = <<"idle">>
    /\ wp.fwd_out >= 2
    /\ sw["w1"].state = "idle"

\* the states published when every line of a text that is not blank is
\* classified whole, each against the state published before it
RECURSIVE C26_WholeLineStates(_, _)
C26_WholeLineStates(previous, lines) ==
    IF lines = <<>> THEN <<>>
    ELSE LET state == detect_state(Head(lines), previous)
         IN  <<state>> \o C26_WholeLineStates(state, Tail(lines))

(* C26: every newline-delimited line of the child's output that is not      *)
(* empty is classified once and whole, against the state published before   *)
(* it, and one record is published per line in order, however the output is *)
(* divided into reads of the master: the states published are those of the  *)
(* whole lines for every division.                                          *)
C26_StatesIndependentOfReads ==
    rx.at = Len(rx.text)
      => rx.pub = C26_WholeLineStates("working", NonBlank(split(rx.text)))

(* C27: the updates of one session are totally ordered: the status file     *)
(* always shows the record of the most recent update call that succeeded    *)
(* (none before the first), complete, and a reader that polls the file      *)
(* never reads an earlier record after a later one.                         *)
C27_FileShowsLatestSuccessfulUpdate ==
    [][ LET seen  == get_session_status(fs, "s1", 0)
            seen_ == get_session_status(fs', "s1", 0)
        IN  /\ StatusExists(fs', "s1") <=> wp'.last_ok # -1
            /\ StatusExists(fs', "s1")
                 => /\ seen_.updated_at = wp'.last_ok
                    /\ seen_.state \in {"working", "waiting", "error", "idle"}
                    /\ wp'.last_ok = sw'["w1"].last_update
                         => seen_ = status_dict(sw'["w1"])
            /\ StatusExists(fs, "s1")
                 => StatusExists(fs', "s1") /\ seen_.updated_at >= seen.updated_at ]_vars

\* an update failed after one that succeeded: the file still shows the
\* earlier record, not the object's newer one
C27_Witness ==
    /\ wp.pc = "loop"
    /\ wp.wrote = "failed"
    /\ wp.last_ok # -1
    /\ wp.last_ok < sw["w1"].last_update
    /\ get_session_status(fs, "s1", 0).updated_at = wp.last_ok

(* C28: once the child has exited, the supervisor eventually leaves its     *)
(* loop and terminates, in every execution, also when the real stdin is at  *)
(* end of file, so that select never times out.                             *)
C28_TerminatesAfterChildExit ==
    (child.st \in {"zombie", "reaped"}) ~> ~Alive

(* C29: when a read or a write on the real stdin, the real stdout or the    *)
(* pty master fails with an I/O error, the supervisor does not retry and    *)
(* forwards nothing more: that turn of the loop is its last, and it goes on *)
(* to reap the child, publish the idle record and return the exit code.     *)
C29_IoErrorLeavesLoop ==
    [][ /\ \A in_ok, out_ok \in BOOLEAN, how \in {"eof", "ioerror"} :
             LET stdin_failed ==
                     \/ tty.stdin = "error"
                     \/ tty.stdin = "data" /\ ~in_ok
                 master_failed ==
                     /\ ~stdin_failed
                     /\ MasterReady
                     /\ \/ tty.out # <<>> /\ ~out_ok
                        \/ tty.out = <<>> /\ how = "ioerror"
             IN  (wp.pc = "loop" /\ (stdin_failed \/ master_failed)
                    /\ TurnWith(in_ok, out_ok, how))
                   => /\ wp'.pc = "reap"
                      /\ wp'.left = "ioerror"
                      /\ wp'.fwd_out = wp.fwd_out
                      /\ stdin_failed => wp'.fwd_in = wp.fwd_in /\ tty'.out = tty.out
                      /\ wp'.pub = <<>>
                      /\ fs' = fs
        /\ wp.left = "ioerror"
             => /\ wp'.left = "ioerror"
                /\ wp'.fwd_in = wp.fwd_in
                /\ wp'.fwd_out = wp.fwd_out
                /\ wp'.pc \in {"reap", "returned"}
                /\ wp'.pc # wp.pc
                     => /\ child.st = "zombie" /\ child'.st = "reaped"
                        /\ wp'.pub = <<"idle">>
                        /\ wp'.exit_code = IF child.status.kind = "exit"
                                           THEN child.status.code ELSE 1 ]_vars

\* the run ended after an I/O error: the loop was left on it, the child was
\* reaped, the idle record published and the exit code returned
C29_Witness ==
    /\ wp.pc = "returned"
    /\ wp.left = "ioerror"
    /\ wp.pub = <<"idle">>
    /\ child.st = "reaped"

(* C30: the supervisor never creates, changes or deletes a session metadata *)
(* record; over a whole run the only files it writes are the status record  *)
(* of its own session id and that record's temporary files, and it leaves   *)
(* every other session's status record as it is.                            *)
C30_WritesOwnStatusOnly ==
    [][ /\ meta' = meta
        /\ sessions' = sessions /\ registry' = registry /\ order' = order
        /\ \A n \in FsNames :
             \/ n = StatusName("s1")
             \/ \E k \in 1..MaxTmp : n = TmpName("s1", k)
             \/ /\ fs'.dir[n] = fs.dir[n]
                /\ fs.dir[n] # 0 => fs'.inodes[fs.dir[n]] = fs.inodes[fs.dir[n]] ]_vars

\* a whole run beside session s2: the supervisor of s1 returned, its status
\* file is there with a temporary file left over, and the metadata files and
\* the status record of s2 are what they were
C30_Witness ==
    /\ wp.pc = "returned"
    /\ StatusExists(fs, "s1")
    /\ TempFiles(fs, "s1") # {}
    /\ get_session_status(fs, "s1", 0).state = "idle"
    /\ get_session_status(fs, "s2", 0).state = "waiting"
    /\ \A id \in SessionIds : meta[id] = SessionFile(NewSession(id))

(* C32: no SessionManager operation raises because a file could not be      *)
(* written, read or removed: such a failure is logged and the operation     *)
(* returns its normal or default result.  The exceptions a call may end     *)
(* with are the TmuxError of the terminal host and the SessionError that    *)
(* create_session raises for a missing project path before it has called    *)
(* the terminal host.                                                       *)
C32_FileFailuresNeverRaise ==
    \/ call.exc \in {"none", "TmuxError"}
    \/ call.op = "create_session" /\ call.exc = "SessionError" /\ call.calls = <<>>

(* C35: create_session is all-or-nothing: whenever it raises, the sessions  *)
(* in memory, the metadata directory and the terminal host's live sessions  *)
(* are what they were before the call.                                      *)
C35_CreateSessionAllOrNothing ==
    [][ \A id \in SessionIds, exists \in BOOLEAN, fault \in CreateFaults, saved \in BOOLEAN :
          (Returned_ /\ CreateSession(id, exists, fault, saved) /\ call'.exc # "none")
             => /\ registry' = registry
                /\ sessions' = sessions
                /\ order' = order
                /\ meta' = meta
                /\ tmux' = tmux ]_vars

(* C37: reconnect_orphaned_sessions only adds sessions: every session that  *)
(* is in the registry before the call is in it after the call with the same *)
(* record, the same place in the order and the same metadata file, also     *)
(* when its hosted terminal is no longer live.                              *)
C37_ReconnectOnlyAdds ==
    [][ \A cwd \in PaneCwds, bad \in TmuxNames \cup {<<>>} :
          (/\ Returned_
           /\ call'.op = "reconnect_orphaned_sessions"
           /\ ReconnectOrphanedSessions(cwd, bad))
             => /\ registry \subseteq registry'
                /\ SubSeq(order', 1, Len(order)) = order
                /\ \A id \in registry :
                     /\ sessions'[id] = sessions[id]
                     /\ meta'[id] = meta[id] ]_vars

\* reconnect_orphaned_sessions returned after adopting a terminal while the
\* terminal of a session made by create_session was dead: that session is
\* still registered, unchanged, with its metadata file
C37_Witness ==
    /\ call.op = "reconnect_orphaned_sessions"
    /\ call.exc = "none"
    /\ call.count = 1
    /\ call.still
    /\ \E id \in registry :
         /\ tmux_name(id) \notin tmux.live
         /\ sessions[id] = NewSession(id)
         /\ meta[id] = SessionFile(NewSession(id))

\* one SessionManager at work while no file operation fails: write_text and
\* both unlinks succeed, and nothing but the SessionManager touches the
\* metadata directory
NextSound ==
    \/ (\E id \in SessionIds, exists \in BOOLEAN, fault \in CreateFaults :
            CreateSession(id, exists, fault, TRUE)) /\ RegistryFrame
    \/ (\E id \in SessionIds : DeleteSession(id)) /\ RegistryFrame
    \/ DeleteSessionFiles(TRUE, TRUE) /\ RegistryFrame
    \/ (\E cwd \in PaneCwds : ReconnectOrphanedSessions(cwd, <<>>)) /\ RegistryFrame
    \/ NewSessionManager /\ RegistryFrame
    \/ ServerDown /\ RegistryFrame
    \/ ServerUp /\ RegistryFrame
    \/ (\E name \in TmuxNames : TerminalExits(name)) /\ RegistryFrame
    \/ (\E id \in SessionIds : WrapperStarts(id)) /\ RegistryFrame

SpecSound == InitRegistry /\ [][NextSound]_vars

(* C36: while no file operation fails, after any sequence of create_session, *)
(* delete_session and reconnect_orphaned_sessions on one SessionManager the  *)
(* ids that have a metadata file are the ids in memory, and a SessionManager *)
(* constructed anew over the same directory would load exactly the sessions  *)
(* that are in memory.                                                       *)
C36_MemoryAgreesWithDisk ==
    /\ { id \in SessionIds : MetaExists(meta, id) } = registry
    /\ { id \in SessionIds : MetaExists(meta, id) /\ load_session(meta[id]).ok } = registry
    /\ \A id \in registry : load_session(meta[id]).session = sessions[id]

\* a session was created and deleted, an orphaned terminal was adopted, and
\* both the adopted session and its metadata file are there
C36_Witness ==
    /\ Returned_
    /\ \E a \in SessionIds, b \in registry :
         /\ deleted[a] = "total"
         /\ a \notin registry
         /\ ~MetaExists(meta, a)
         /\ sessions[b] # NewSession(b)
         /\ MetaExists(meta, b)

\* a name that a session of the terminal host can also have: the host is
\* shared with the user, and this one holds the prefix twice
DoubledName == <<TMUX_SESSION_PREFIX, TMUX_SESSION_PREFIX, "s1">>
HostNames == TmuxNames \cup {DoubledName}

InitNames ==
    /\ ClassifierQuiet
    /\ WrapperQuiet
    /\ StatusQuiet
    /\ sessions = [id \in SessionIds |-> NoSession]
    /\ meta = [id \in SessionIds |-> NoFile]
    /\ tmux \in { [up |-> TRUE, live |-> l] : l \in SUBSET HostNames }
    /\ call = NoCall
    /\ deleted = [id \in SessionIds |-> "no"]
    /\ order = <<>>
    /\ ctl = NewTmuxController
    /\ mgrs = NoManagers

\* create_session and reconnect_orphaned_sessions over a terminal host whose
\* sessions have any of these names
NextNames ==
    \/ (\E id \in SessionIds, exists \in BOOLEAN, fault \in CreateFaults, saved \in BOOLEAN :
            CreateSession(id, exists, fault, saved)) /\ RegistryFrame
    \/ (\E cwd \in PaneCwds, bad \in HostNames \cup {<<>>} :
            ReconnectOrphanedSessions(cwd, bad)) /\ RegistryFrame
    \/ ServerDown /\ RegistryFrame
    \/ ServerUp /\ RegistryFrame
    \/ (\E name \in HostNames : TerminalExits(name)) /\ RegistryFrame

SpecNames == InitNames /\ [][NextNames]_vars

(* C39: for every session in the registry after any sequence of             *)
(* create_session and reconnect_orphaned_sessions, the recorded name of the *)
(* hosted terminal is the orchestra prefix followed by the session id, and  *)
(* two different sessions never record the same name.                       *)
C39_NameIsPrefixPlusId ==
    /\ \A id \in registry : sessions[id].tmux_session = tmux_name(id)
    /\ \A a, b \in registry :
         a # b => sessions[a].tmux_session # sessions[b].tmux_session

(* C33: TmuxController.create_session kills a hosted session that already   *)
(* has the name before it creates the new one: whenever the server is       *)
(* reached and holds a session of that name, that session is killed; the    *)
(* creation then never fails for the name being taken, the name stands for  *)
(* one session, the new one, and no session of another name is touched.     *)
C33_KillsSameNameFirst ==
    [][ \A name \in TmuxNames, connect_ok, ok \in BOOLEAN :
          ControllerCall("create_session", name, connect_ok, ok)
             => LET reached == tmux.up /\ server(ctl, connect_ok).exc = "none"
                IN  /\ (reached /\ name \in tmux.live) => call'.killed
                    /\ (reached /\ ok) => (call'.exc = "none" /\ name \in tmux'.live)
                    /\ call'.exc = "none" => name \in tmux'.live
                    /\ tmux'.live \ {name} = tmux.live \ {name} ]_vars

\* create_session returned a session after killing the one that had the name
C33_Witness ==
    /\ call.op = "create_session"
    /\ call.killed
    /\ call.ret = "session"
    /\ ctl.server = "Server"
    /\ tmux.live # {}

\* what a reader of the status file of sid finds: no file, or its text
\* (manager.py lines 124-129: exists(), read_text())
visible(f, sid) ==
    IF f.dir[StatusName(sid)] = 0 THEN <<"absent">>
    ELSE <<"text", f.inodes[f.dir[StatusName(sid)]]>>

\* this step is one of a call of update that does not end well: any step
\* after the entry but the rename that succeeds
FailingStep(w) ==
    /\ wl[w].pc # "idle"
    /\ ~(wl'[w].pc = "idle" /\ wl'[w].result = "ok")

\* this step is the return of a call of update that failed
FailedReturn(w) ==
    /\ wl[w].pc # "idle"
    /\ wl'[w].pc = "idle"
    /\ wl'[w].result = "failed"

(* C38, as the code has it: when a status write fails, the status file that *)
(* was visible before the call is unchanged at every step of the call, and  *)
(* when the call returns its temporary file is gone, unless the unlink of   *)
(* that file failed too (lines 70-73): then it stays in the directory.      *)
C38_FailedWriteKeepsFile ==
    [][ /\ FailingStep("w1") => visible(fs', Sid) = visible(fs, Sid)
        /\ (FailedReturn("w1") /\ ~UpdateCleanupFail("w1"))
              => /\ wl["w1"].temp # NoName => fs'.dir[wl["w1"].temp] = 0
                 /\ TempFiles(fs', Sid) \subseteq TempFiles(fs, Sid) ]_vars

(* C38: when a status write fails, the status file content that was visible *)
(* before the call is left unchanged and no temporary file created by that  *)
(* call remains in the status directory.                                    *)
C38_FailedWriteLeavesNothing ==
    [][ /\ FailingStep("w1") => visible(fs', Sid) = visible(fs, Sid)
        /\ FailedReturn("w1")
              => /\ wl["w1"].temp # NoName => fs'.dir[wl["w1"].temp] = 0
                 /\ TempFiles(fs', Sid) \subseteq TempFiles(fs, Sid) ]_vars

\* a call of update failed after an earlier one had published a record: the
\* file still holds the earlier record, not the one of the failed call, and
\* no temporary file is left
C38_Witness ==
    /\ wl["w1"].pc = "idle"
    /\ wl["w1"].result = "failed"
    /\ wl["w1"].calls >= 1
    /\ StatusExists(fs, Sid)
    /\ TempFiles(fs, Sid) = {}
    /\ get_session_status(fs, Sid, 0).state # sw["w1"].state

\* the hosted terminal of the supervisor's session is gone: the hangup ends
\* the supervisor process where it stands (it installs handlers for SIGINT
\* and SIGTERM only, wrapper.py lines 115-116), whenever the signal gets there
Hangup ==
    /\ tmux_name(Sid) \notin tmux.live
    /\ wp.pc \notin {"returned", "killed"}
    /\ wp' = [wp EXCEPT !.pc = "killed"]
    /\ UNCHANGED <<fs, clock, sw, wl, issued, rd, registry, tty, child, sig>>

\* the supervisor of session s1 runs in its hosted terminal while the
\* SessionManager deletes that session: delete_session kills the terminal
\* and unlinks the files, and waits for nothing in between (lines 106-112)
NextDeleteRace ==
    \/ SupervisorStep
    \/ \E chunk \in OutChunks : ChildWrites(chunk) /\ UNCHANGED <<clVars, rgVars>>
    \/ \E code \in ExitCodes, held \in BOOLEAN :
          ChildExits(code, held) /\ UNCHANGED <<clVars, rgVars>>
    \/ Hangup /\ UNCHANGED <<clVars, rgVars>>
    \/ DeleteSession(Sid) /\ RegistryFrame
    \/ (\E meta_ok, status_ok \in BOOLEAN : DeleteSessionFiles(meta_ok, status_ok))
          /\ RegistryFrame

SpecDeleteRace == InitBeside /\ [][NextDeleteRace]_vars

(* C34: once delete_session(id) has completed and the status file of id is  *)
(* absent, the file stays absent and get_session_status(id) stays unknown,  *)
(* also when the supervisor of that session is still running at the moment  *)
(* of the deletion, in its loop or about to publish its final idle record.  *)
C34_DeletedStatusStaysAbsent ==
    [][ (/\ call.op = "delete_session"
         /\ call.ret = "True"
         /\ wp.pc \in {"loop", "reap"}
         /\ ~StatusExists(fs, call.id))
           => /\ ~StatusExists(fs', call.id)
              /\ get_session_status(fs', call.id, clock').state = "unknown" ]_vars

----------------------------------------------------------------------------
(* Two SessionManager objects over the same directories, each running       *)
(* reconnect_orphaned_sessions step by step: manager.py lines 170-208 and   *)
(* 37-45.  The terminal host stays as it is meanwhile.                      *)

\* how long the text of a Session is, as far as sessions differ in length:
\* the home directory and "unknown" (lines 190-191) against the pane's
\* directory and its last component
text_len(session) ==
    IF session = NoSession THEN 0
    ELSE IF session.project_name = "unknown" THEN 2 ELSE 1

\* open(path, "w") of write_text: the file is there and empty
EmptyFile == [kind |-> "garbage", session |-> NoSession]

\* the write of write_text, at offset 0 of the file as it is by now: a longer
\* text another writer put there since keeps its tail, and the file is no
\* JSON any more
write_over(file, session) ==
    IF text_len(file.session) <= text_len(session) THEN SessionFile(session)
    ELSE IF file = SessionFile(session) THEN file
    ELSE [kind |-> "garbage", session |-> file.session]

\* line 174: the names are listed once, before the loop
MgrList(m) ==
    /\ mgrs[m].pc = "idle"
    /\ mgrs' = [mgrs EXCEPT ![m].pc = "loop", ![m].count = 0,
                   ![m].names = list_sessions(tmux, TMUX_SESSION_PREFIX)]
    /\ UNCHANGED meta

\* lines 176-204 for the next name: a known id is skipped; else the pane's
\* directory is asked for, the Session is built and put into self._sessions
MgrNext(m, cwd) ==
    /\ mgrs[m].pc = "loop"
    /\ mgrs[m].names # <<>>
    /\ LET tmux_session == Head(mgrs[m].names)
           session_id   == joined(str_replace(tmux_session, TMUX_SESSION_PREFIX))
           session      == ReconnectedSession(session_id, tmux_session,
                               get_pane_cwd(tmux, tmux_session, cwd))
       IN  mgrs' = IF is_known(mgrs[m].registry, session_id)
                   THEN [mgrs EXCEPT ![m].names = Tail(@)]
                   ELSE [mgrs EXCEPT ![m].registry = @ \cup {session_id},
                                     ![m].order = dict_set(@, session_id),
                                     ![m].sessions[session_id] = session,
                                     ![m].session = session,
                                     ![m].pc = "open"]
    /\ UNCHANGED meta

\* _save_session, line 42: write_text opens the file for writing
MgrOpen(m) ==
    /\ mgrs[m].pc = "open"
    /\ meta' = [meta EXCEPT ![mgrs[m].session.id] = EmptyFile]
    /\ mgrs' = [mgrs EXCEPT ![m].pc = "write"]

\* line 42, the text is written and the file closed; lines 206-207
MgrWrite(m) ==
    /\ mgrs[m].pc = "write"
    /\ meta' = [meta EXCEPT ![mgrs[m].session.id] = write_over(@, mgrs[m].session)]
    /\ mgrs' = [mgrs EXCEPT ![m].pc = "loop", ![m].names = Tail(@),
                            ![m].session = NoSession, ![m].count = @ + 1]

\* line 208: return count
MgrReturn(m) ==
    /\ mgrs[m].pc = "loop"
    /\ mgrs[m].names = <<>>
    /\ mgrs' = [mgrs EXCEPT ![m].pc = "done"]
    /\ UNCHANGED meta

\* both objects were constructed over the same sessions directory (lines
\* 24-35), which holds the files of the sessions created earlier; any of the
\* terminals can be live
InitPeers ==
    /\ ClassifierQuiet
    /\ WrapperQuiet
    /\ StatusQuiet
    /\ sessions = [id \in SessionIds |-> NoSession]
    /\ call = NoCall
    /\ deleted = [id \in SessionIds |-> "no"]
    /\ order = <<>>
    /\ ctl = NewTmuxController
    /\ tmux \in { [up |-> TRUE, live |-> l] : l \in SUBSET TmuxNames }
    /\ \E pre \in SUBSET SessionIds :
         /\ meta = [id \in SessionIds |->
                      IF id \in pre THEN SessionFile(NewSession(id)) ELSE NoFile]
         /\ \E o \in Orderings(pre) :
              mgrs = [m \in Managers |->
                        [NoManager EXCEPT
                            !.registry = pre, !.before = pre, !.order = o,
                            !.sessions = [id \in SessionIds |->
                                            IF id \in pre THEN NewSession(id)
                                            ELSE NoSession]]]

PeersFrame ==
    UNCHANGED <<clVars, stVars, wrVars, sessions, tmux, call, deleted, order, ctl>>

NextPeers ==
    \/ \E m \in Managers : MgrList(m) /\ PeersFrame
    \/ \E m \in Managers, cwd \in PaneCwds : MgrNext(m, cwd) /\ PeersFrame
    \/ \E m \in Managers : MgrOpen(m) /\ PeersFrame
    \/ \E m \in Managers : MgrWrite(m) /\ PeersFrame
    \/ \E m \in Managers : MgrReturn(m) /\ PeersFrame

SpecPeers == InitPeers /\ [][NextPeers]_vars

\* the ids of the live terminals no object knew before: the orphans
Orphans ==
    { n \in tmux.live :
        /\ startswith(n, TMUX_SESSION_PREFIX)
        /\ \A m \in Managers :
             joined(str_replace(n, TMUX_SESSION_PREFIX)) \notin mgrs[m].before }

(* C31: when two SessionManager objects over the same directories have both *)
(* run reconnect_orphaned_sessions concurrently against the same live       *)
(* terminals, every orphaned terminal has its one metadata file, both       *)
(* objects hold a Session for it with the same id and terminal name, and    *)
(* every session that existed before is still there once, as it was, in     *)
(* both objects and on disk.                                                *)
C31_ConcurrentReconnectAgrees ==
    (\A m \in Managers : mgrs[m].pc = "done")
       => /\ \A n \in Orphans :
               LET id == joined(str_replace(n, TMUX_SESSION_PREFIX))
               IN  /\ MetaExists(meta, id)
                   /\ \A m \in Managers :
                        /\ id \in mgrs[m].registry
                        /\ mgrs[m].sessions[id].id = id
                        /\ mgrs[m].sessions[id].tmux_session = n
          /\ \A m \in Managers :
               /\ \A id \in mgrs[m].before :
                    /\ id \in mgrs[m].registry
                    /\ mgrs[m].sessions[id] = NewSession(id)
                    /\ meta[id] = SessionFile(NewSession(id))
               /\ Len(mgrs[m].order) = Cardinality(mgrs[m].registry)
               /\ { mgrs[m].order[i] : i \in 1..Len(mgrs[m].order) } = mgrs[m].registry
               /\ mgrs[m].registry = mgrs[m].before \cup
                     { joined(str_replace(n, TMUX_SESSION_PREFIX)) : n \in Orphans }

\* both objects adopted the same orphaned terminal, each counting it, beside
\* a session from before whose terminal is dead
C31_Witness ==
    /\ \A m \in Managers : mgrs[m].pc = "done" /\ mgrs[m].count = 1
    /\ Orphans # {}
    /\ \E id \in mgrs["m1"].before : tmux_name(id) \notin tmux.live
    /\ \A n \in Orphans : meta[joined(str_replace(n, TMUX_SESSION_PREFIX))].kind = "json"

====
